---------------------------- MODULE Spec2Model ----------------------------
(***************************************************************************)
(* State transfer (SST/IST) coordination of the galera replicator:         *)
(*   - the state transfer request codec (StateRequest_v0 / StateRequest_v1,*)
(*     read_state_request),                                                *)
(*   - the IST descriptor text form (IST_request, operator<< / operator>>),*)
(*   - the donor side  (ReplicatorSMM::process_state_req),                 *)
(*   - the joiner side (ReplicatorSMM::request_state_transfer,             *)
(*     send_state_request, recv_IST, sst_received).                        *)
(* Source: galera/src/replicator_str.cpp.  The build modelled is the       *)
(* production one: assert() and the GU_DBUG_* hooks compile to nothing.    *)
(* Byte strings are sequences of integers 0..255.                          *)
(***************************************************************************)
EXTENDS Integers, Sequences, FiniteSets, TLC

VARIABLES
    \* ---- request codec (pure functions applied to drawn inputs)
    c_pc,        \* "input" | "wire" | "decoded"
    c_src,       \* "encoder": the bytes come from the encoder; "raw": drawn
    c_ver,       \* str_proto_ver_ used by prepare_state_request
    c_sst,       \* SST payload handed to the encoder
    c_ist,       \* IST payload handed to the encoder
    c_buf,       \* the bytes on the wire: [ok, err, buf]
    c_sr,        \* what read_state_request built from the bytes
    \* ---- IST descriptor (pure functions applied to drawn inputs)
    i_pc,        \* "input" | "request" | "parsed"
    i_desc,      \* the IST_request built by prepare_for_IST
    i_req,       \* the state request that carries its text
    i_istr,      \* the IST_request filled by get_ist_request
    \* ---- donor: ReplicatorSMM::process_state_req and the IST sender it starts
    d_pc,        \* position in process_state_req
    d_in,        \* its arguments and the donor's state when it is called
    d_state,     \* state_
    d_local,     \* local_monitor_: "out" | "in" | "left"
    d_drained,   \* [apply, commit]: the seqno each monitor was drained to
    d_streq,     \* streq
    d_istr,      \* istr
    d_guard,     \* seqno_lock_guard: [alive, unlock_, unlocks]
    d_after,     \* where control goes when the guard's scope is left
    d_gcache,    \* gcache_: [locks, unlocks] calls of seqno_lock that
                 \* succeeded and calls of seqno_unlock
    d_rcode,     \* rcode
    d_join_now,  \* join_now
    d_sst_calls, \* calls of sst_donate_cb_
    d_ist_runs,  \* calls of ist_senders_.run
    d_sender,    \* the IST sender: "none" | "running" | "done"
    d_joins,     \* calls of gcs_.join
    \* ---- joiner: ReplicatorSMM::request_state_transfer (with
    \*      send_state_request and recv_IST) and the sst_received callback
    j_pc,        \* position in request_state_transfer
    j_in,        \* its arguments and the joiner's state when it is called
    j_state,     \* state_
    j_state_uuid,\* state_uuid_
    j_apply,     \* apply_monitor_ position, the value of STATE_SEQNO()
    j_commit,    \* commit_monitor_ position
    j_sst_state, \* sst_state_
    j_sst_uuid,  \* sst_uuid_
    j_sst_seqno, \* sst_seqno_
    j_mutex,     \* holder of sst_mutex_: "free" | "joiner" | "callback"
    j_signalled, \* sst_cond_ was signalled while the joiner waited on it
    j_st,        \* st_, the recovery marker: [uuid, seqno, safe, corrupt]
    j_req,       \* req, the StateRequest built by prepare_state_request
    j_ist_prepared, \* ist_prepared_
    j_ir,        \* ist_receiver_: [phase, first, last, cur, finished]
    j_send,      \* send_state_request: [tries, ret, sent]
    j_slots,     \* local_monitor_ slots of the request: [cancelled, blocked]
    j_ret,       \* value returned by request_state_transfer
    j_closed,    \* calls of close()
    j_last_st_type, \* last_st_type_
    j_gcache,    \* calls of gcache_.seqno_reset
    j_first,     \* first, the local of recv_IST
    j_fail,      \* what made recv_IST fail, "" while it has not
    j_reqs,      \* invocations begun, requests sent and not yet handled
    cb_pc,       \* position in sst_received
    cb_args,     \* its arguments: [uuid, seqno, rcode]
    cb_ret,      \* the status it returned
    cb_hist,     \* calls of sst_received begun, the calls that stored
                 \* sst_uuid_ and sst_seqno_, and the pair the joiner read
    e_pc,        \* EVS seqno arithmetic: "idle", "input", "done"
    e_in,        \* its operands: [a, b]
    e_out,       \* the results: [add, dec, lt, gt, eq, next, test]
    g_pc,        \* GCommConn as its owner drives it: "idle", "created",
                 \* "connecting", "at_barrier", "at_barrier_exc", "open",
                 \* "failed", "closing", "closed"
    g_sp,        \* schedparam_ differs from the system default
    g_tp,        \* tp_ != 0
    g_error,     \* error_
    g_terminated, \* terminated_
    g_thd,       \* thd_ in run(): "none", "start", "barrier", "loop",
                 \* "exited"
    g_connected, \* connect reached its last statement
    g_bar,       \* waits on barrier_: [conn, thd]
    g_view,      \* current_view_.members().size()
    g_queue,     \* recv_buf_.queue_
    g_npush,     \* entries pushed so far; the n-th pushed entry has id n
    g_uperrs,    \* transport errors handle_up was given
    g_r,         \* gcomm_recv in progress: [pc, d, buf_len]
    g_msg,       \* the caller's gcs_recv_msg_t: [type, size, id, leave, ret]
    g_deliv,     \* ids of the entries copied to the caller, in order
    g_send       \* gcomm_send: [calls, restore_threw, downs, len, ret]

cvars == <<c_pc, c_src, c_ver, c_sst, c_ist, c_buf, c_sr>>
ivars == <<i_pc, i_desc, i_req, i_istr>>

dvars == <<d_pc, d_in, d_state, d_local, d_drained, d_streq, d_istr, d_guard,
           d_after, d_gcache, d_rcode, d_join_now, d_sst_calls, d_ist_runs,
           d_sender, d_joins>>

jvars == <<j_pc, j_in, j_state, j_state_uuid, j_apply, j_commit, j_sst_state,
           j_sst_uuid, j_sst_seqno, j_mutex, j_signalled, j_st, j_req,
           j_ist_prepared, j_ir, j_send, j_slots, j_ret, j_closed,
           j_last_st_type, j_gcache, j_first, j_fail, j_reqs, cb_pc,
           cb_args, cb_ret, cb_hist>>

evars == <<e_pc, e_in, e_out>>

gvars == <<g_pc, g_sp, g_tp, g_error, g_terminated, g_thd, g_connected, g_bar, g_view,
           g_queue, g_npush, g_uperrs, g_r, g_msg, g_deliv, g_send>>

vars == <<cvars, ivars, dvars, jvars, evars, gvars>>

-----------------------------------------------------------------------------
(* Bounds of the model *)

\* longest SST / IST payload handed to the encoder
MaxPayload == 2
\* longest tail of bytes after the head of a buffer drawn for the decoder
MaxTail == 10
\* largest seqno drawn for a descriptor, a node or a group
MaxSeqno == 12

-----------------------------------------------------------------------------
(* Byte strings *)

SeqsUpTo(S, n) == UNION {[1..k -> S] : k \in 0..n}

\* "STRv1"
MAGIC == <<83, 84, 82, 118, 49>>

INT32_MAX == 2147483647

\* sizeof(uint32_t)
U32 == 4

\* host to wire order of a 32 bit length
htogl(n) ==
    << (n \div 16777216) % 256, (n \div 65536) % 256, (n \div 256) % 256, n % 256 >>

\* wire to host order: the four bytes of buf that follow offset
gtohl(buf, offset) ==
      buf[offset + 1] * 16777216 + buf[offset + 2] * 65536
    + buf[offset + 3] * 256      + buf[offset + 4]

\* strncmp(a, b, n) == 0 for a b that holds no NUL in its first n bytes
\* and an a of at least n bytes
SamePrefix(a, b, n) == \A i \in 1..n : a[i] = b[i]

-----------------------------------------------------------------------------
(* StateRequest_v0, StateRequest_v1 *)

EINVAL   == "EINVAL"
EMSGSIZE == "EMSGSIZE"

\* StateRequest_v0(sst_req, sst_req_len)
StateRequest_v0(req) == [kind |-> "v0", req |-> req]

\* StateRequest_v1::sst_offset()
sst_offset == Len(MAGIC) + 1

\* StateRequest_v1::len(offset)
v1_len(req, offset) == gtohl(req, offset)

\* StateRequest_v1::req(offset): the bytes after the length, none when it is 0
v1_req(req, offset) ==
    IF v1_len(req, offset) > 0
    THEN SubSeq(req, offset + U32 + 1, offset + U32 + v1_len(req, offset))
    ELSE << >>

\* a decoder that forgets the width of the first length prefix
ist_offset_NoPrefix(req) == sst_offset + v1_len(req, sst_offset)

\* StateRequest_v1::ist_offset()
ist_offset(req) == sst_offset + U32 + v1_len(req, sst_offset)

\* StateRequest_v1(sst_req, sst_req_len, ist_req, ist_req_len): the encoder
EncodeV1(sst, ist) ==
    IF Len(sst) > INT32_MAX \/ Len(sst) < 0 THEN [ok |-> FALSE, err |-> EMSGSIZE, buf |-> << >>]
    ELSE IF Len(ist) > INT32_MAX \/ Len(ist) < 0 THEN [ok |-> FALSE, err |-> EMSGSIZE, buf |-> << >>]
    ELSE [ok |-> TRUE, err |-> "",
          buf |-> MAGIC \o <<0>> \o htogl(Len(sst)) \o sst \o htogl(Len(ist)) \o ist]

\* a too-short test that is off by one
V1TooShort_OffByOne(str) == sst_offset + 2 * U32 >= Len(str)

\* the too-short test of the decoder
V1TooShort(str) == sst_offset + 2 * U32 > Len(str)

\* the test of the first length against the buffer
V1SstOverrun(str) == sst_offset + v1_len(str, sst_offset) + 2 * U32 > Len(str)

\* a test that only rejects fields running past the end of the buffer
V1LengthMismatch_Overrun(str) == ist_offset(str) + v1_len(str, ist_offset(str)) + U32 > Len(str)

\* the test that the two fields consume the buffer exactly
V1LengthMismatch(str) == ist_offset(str) + v1_len(str, ist_offset(str)) + U32 # Len(str)

\* StateRequest_v1(str, str_len): the decoder
DecodeV1(str) ==
    IF V1TooShort(str) THEN [kind |-> EINVAL, req |-> str]
    ELSE IF ~SamePrefix(str, MAGIC, Len(MAGIC)) THEN [kind |-> EINVAL, req |-> str]
    ELSE IF V1SstOverrun(str) THEN [kind |-> EINVAL, req |-> str]
    ELSE IF V1LengthMismatch(str) THEN [kind |-> EINVAL, req |-> str]
    ELSE [kind |-> "v1", req |-> str]

\* a version test that also wants the NUL after the magic
IsV1_WithNul(req) ==
    Len(req) > Len(MAGIC) /\ SamePrefix(req, MAGIC, Len(MAGIC)) /\ req[Len(MAGIC) + 1] = 0

\* which payloads read_state_request hands to the v1 decoder
IsV1(req) == Len(req) > Len(MAGIC) /\ SamePrefix(req, MAGIC, Len(MAGIC))

\* read_state_request(req, req_len)
read_state_request(req) ==
    IF IsV1(req) THEN DecodeV1(req) ELSE StateRequest_v0(req)

\* StateRequest::sst_req(), sst_len(), ist_req(), ist_len()
sst_len(sr) == IF sr.kind = "v0" THEN Len(sr.req) ELSE v1_len(sr.req, sst_offset)
sst_req(sr) == IF sr.kind = "v0" THEN sr.req ELSE v1_req(sr.req, sst_offset)
ist_len(sr) == IF sr.kind = "v0" THEN 0 ELSE v1_len(sr.req, ist_offset(sr.req))
ist_req(sr) == IF sr.kind = "v0" THEN << >> ELSE v1_req(sr.req, ist_offset(sr.req))

\* no request object built yet
NoRequest == [kind |-> "none", req |-> << >>]

-----------------------------------------------------------------------------
(* Text streams: what operator<< writes and operator>> reads *)

Min(S) == CHOOSE x \in S : \A y \in S : x <= y

\* isspace() in the "C" locale
IsSpace(b) == b \in {9, 10, 11, 12, 13, 32}
IsDigit(b) == b \in 48..57
IsHex(b)   == b \in 48..57 \/ b \in 97..102 \/ b \in 65..70

\* first position at or after p that holds no white space
SkipWs(s, p) ==
    LET C == {q \in p..Len(s) : ~IsSpace(s[q])}
    IN  IF C = {} THEN Len(s) + 1 ELSE Min(C)

\* end (exclusive) of the run of bytes in ok that starts at p, at most w long
RunEnd(s, p, w, ok(_)) ==
    LET C == {q \in p..Len(s) : ~ok(s[q]) \/ q >= p + w}
    IN  IF C = {} THEN Len(s) + 1 ELSE Min(C)

RECURSIVE DecNat(_)
DecNat(n) == IF n < 10 THEN <<48 + n>> ELSE DecNat(n \div 10) \o <<48 + (n % 10)>>

\* os << seqno
Dec(n) == IF n < 0 THEN <<45>> \o DecNat(-n) ELSE DecNat(n)

RECURSIVE DigitsVal(_, _, _, _)
DigitsVal(s, p, e, acc) ==
    IF p >= e THEN acc ELSE DigitsVal(s, p + 1, e, acc * 10 + (s[p] - 48))

HexDigit(d) == IF d < 10 THEN 48 + d ELSE 87 + d
HexVal(b)   == IF b \in 48..57 THEN b - 48 ELSE IF b \in 97..102 THEN b - 87 ELSE b - 55

\* the 16 bytes of a history UUID
WSREP_UUID_UNDEFINED == [i \in 1..16 |-> 0]
UUID_STR_LEN == 36

\* where the 36 character form holds '-'
UuidHyphens == {9, 14, 19, 24}

\* index in the 36 character form of the first digit of byte i
UuidCol(i) ==
    2 * i - 1 + (IF i > 10 THEN 4 ELSE IF i > 8 THEN 3 ELSE IF i > 6 THEN 2
                 ELSE IF i > 4 THEN 1 ELSE 0)

\* os << uuid
UuidPrint(u) ==
    [k \in 1..UUID_STR_LEN |->
        IF k \in UuidHyphens THEN 45
        ELSE LET i == CHOOSE j \in 1..16 : k \in {UuidCol(j), UuidCol(j) + 1}
             IN  IF k = UuidCol(i) THEN HexDigit(u[i] \div 16) ELSE HexDigit(u[i] % 16)]

\* the 36 characters are a UUID
UuidTextOk(t) ==
    /\ Len(t) = UUID_STR_LEN
    /\ \A k \in 1..UUID_STR_LEN : IF k \in UuidHyphens THEN t[k] = 45 ELSE IsHex(t[k])

UuidScan(t) == [i \in 1..16 |-> HexVal(t[UuidCol(i)]) * 16 + HexVal(t[UuidCol(i) + 1])]

\* a stream being read: the text, the position, failbit, and whether the
\* UUID extractor threw
Stream(s) == [s |-> s, pos |-> 1, fail |-> FALSE, threw |-> FALSE]

Dead(st) == st.fail \/ st.threw

\* is >> uuid: at most 36 characters up to white space, then the scan, which
\* throws on anything that is no UUID
ReadUuid(st) ==
    LET p == SkipWs(st.s, st.pos)
        e == RunEnd(st.s, p, UUID_STR_LEN, LAMBDA b : ~IsSpace(b))
        t == SubSeq(st.s, p, e - 1)
    IN  IF UuidTextOk(t)
        THEN [st |-> [st EXCEPT !.pos = e], val |-> UuidScan(t)]
        ELSE [st |-> [st EXCEPT !.threw = TRUE], val |-> WSREP_UUID_UNDEFINED]

\* is >> c: the next character that is no white space, whichever it is
ReadChar(st) ==
    IF Dead(st) THEN st
    ELSE LET p == SkipWs(st.s, st.pos)
         IN  IF p > Len(st.s) THEN [st EXCEPT !.pos = p, !.fail = TRUE]
             ELSE [st EXCEPT !.pos = p + 1]

\* is >> seqno: optional sign, digits; no digit sets failbit and stores 0;
\* old is what the field held (kept when the stream had failed before)
ReadInt(st, old) ==
    IF Dead(st) THEN [st |-> st, val |-> old]
    ELSE LET p    == SkipWs(st.s, st.pos)
             sgn  == p <= Len(st.s) /\ st.s[p] \in {43, 45}
             d    == IF sgn THEN p + 1 ELSE p
             e    == RunEnd(st.s, d, Len(st.s), IsDigit)
             v    == DigitsVal(st.s, d, e, 0)
         IN  IF e = d
             THEN [st |-> [st EXCEPT !.pos = e, !.fail = TRUE], val |-> 0]
             ELSE [st |-> [st EXCEPT !.pos = e],
                   val |-> IF sgn /\ st.s[p] = 45 THEN 0 - v ELSE v]

\* is >> string: the characters up to the next white space
ReadStr(st, old) ==
    IF Dead(st) THEN [st |-> st, val |-> old]
    ELSE LET p == SkipWs(st.s, st.pos)
             e == RunEnd(st.s, p, Len(st.s), LAMBDA b : ~IsSpace(b))
         IN  IF e = p
             THEN [st |-> [st EXCEPT !.pos = e, !.fail = TRUE], val |-> << >>]
             ELSE [st |-> [st EXCEPT !.pos = e], val |-> SubSeq(st.s, p, e - 1)]

-----------------------------------------------------------------------------
(* IST_request *)

\* IST_request(): every field value-initialized
IST_request_default ==
    [peer |-> << >>, uuid |-> WSREP_UUID_UNDEFINED, last_applied |-> 0,
     group_seqno |-> 0, fail |-> FALSE, threw |-> FALSE]

\* IST_request(peer, uuid, last_applied, group_seqno)
IST_request(peer, uuid, last_applied, group_seqno) ==
    [peer |-> peer, uuid |-> uuid, last_applied |-> last_applied,
     group_seqno |-> group_seqno, fail |-> FALSE, threw |-> FALSE]

\* operator<<(std::ostream&, const IST_request&)
IstPrint(istr) ==
    UuidPrint(istr.uuid) \o <<58>> \o Dec(istr.last_applied) \o <<45>>
        \o Dec(istr.group_seqno) \o <<124>> \o istr.peer

\* operator>>(std::istream&, IST_request&) on a default IST_request; fail and
\* threw tell how the stream ended
IstScan(text) ==
    LET d  == IST_request_default
        r1 == ReadUuid(Stream(text))
        s2 == ReadChar(r1.st)
        r3 == ReadInt(s2, d.last_applied)
        s4 == ReadChar(r3.st)
        r5 == ReadInt(s4, d.group_seqno)
        s6 == ReadChar(r5.st)
        r7 == ReadStr(s6, d.peer)
    IN  [peer |-> r7.val, uuid |-> r1.val, last_applied |-> r3.val,
         group_seqno |-> r5.val, fail |-> r7.st.fail, threw |-> r7.st.threw]

\* a scan that drops a NUL that ends the peer
IstScan_TrimNul(text) ==
    LET r == IstScan(text)
        n == Len(r.peer)
    IN  IF n > 0 /\ r.peer[n] = 0 THEN [r EXCEPT !.peer = SubSeq(r.peer, 1, n - 1)] ELSE r

\* strdup(os.str().c_str()): the characters before the first NUL
CStr(s) ==
    LET Z == {q \in 1..Len(s) : s[q] = 0}
    IN  IF Z = {} THEN s ELSE SubSeq(s, 1, Min(Z) - 1)

\* the buffer prepare_for_IST returns: the text and its terminating NUL
\* (len = strlen(str) + 1)
IstBuffer(istr) == CStr(IstPrint(istr)) \o <<0>>

\* get_ist_request(str, istr): the scan of the ist_len() bytes at ist_req()
get_ist_request(sr) == IstScan(ist_req(sr))

-----------------------------------------------------------------------------
(* Error numbers, sentinels *)

EPERM     == 1
EAGAIN    == 11
ENOMEM    == 12
ENODATA   == 61
ENOTCONN  == 107
ECANCELED == 125

WSREP_SEQNO_UNDEFINED == -1
GCS_SEQNO_ILL == -1

\* ReplicatorSMM::TRIVIAL_SST: "trivial"
TRIVIAL_SST == <<116, 114, 105, 118, 105, 97, 108>>
\* WSREP_STATE_TRANSFER_NONE: "none"
WSREP_STATE_TRANSFER_NONE == <<110, 111, 110, 101>>

\* sst_is_trivial(req, len)
sst_is_trivial(req) ==
    LET trivial_len == Len(TRIVIAL_SST) + 1
    IN  /\ Len(req) >= trivial_len
        /\ SubSeq(req, 1, trivial_len) = TRIVIAL_SST \o <<0>>

\* a test that forgets the sentinel
skip_state_transfer_Never(streq) == FALSE

\* skip_state_transfer of process_state_req; req_str is the strndup of the
\* SST request
skip_state_transfer(streq) ==
    \/ sst_is_trivial(sst_req(streq))
    \/ CStr(sst_req(streq)) = WSREP_STATE_TRANSFER_NONE

-----------------------------------------------------------------------------
(* The codec applied to drawn inputs *)

PayloadBytes == {0, 1}
Payloads == SeqsUpTo(PayloadBytes, MaxPayload)

\* heads of the buffers drawn for the decoder: the magic with its NUL, the
\* magic followed by 'X', the bare magic, a broken magic, nothing
Heads == { MAGIC \o <<0>>, MAGIC \o <<88>>, MAGIC, <<83, 84, 82, 118>>, << >> }
RawBufs == { h \o t : h \in Heads, t \in SeqsUpTo(PayloadBytes, MaxTail) }

NoSeqnoResult == [add |-> 0, dec |-> 0, lt |-> FALSE, gt |-> FALSE, eq |-> FALSE,
                  next |-> 0, test |-> FALSE]

SeqnoIdle == e_pc = "idle" /\ e_in = [a |-> 0, b |-> 0] /\ e_out = NoSeqnoResult

\* gcs_gcomm.cpp: no entry held, the caller's message before any receive,
\* gcomm_send before any call
NoEntry == [id |-> 0, kind |-> "none", len |-> 0, idx |-> 0, memb |-> 0, err |-> 0]
NoMsg == [type |-> "NONE", size |-> 0, id |-> 0, leave |-> FALSE, ret |-> 0]
NoSendYet == [calls |-> 0, restore_threw |-> FALSE,
              downs |-> 0, len |-> 0, ret |-> 0]

GcommIdle ==
    /\ g_pc = "idle" /\ g_sp = FALSE /\ g_tp = FALSE /\ g_error = 0
    /\ g_terminated = FALSE /\ g_thd = "none" /\ g_connected = FALSE
    /\ g_bar = [conn |-> 0, thd |-> 0] /\ g_view = 0
    /\ g_queue = << >> /\ g_npush = 0 /\ g_uperrs = 0
    /\ g_r = [pc |-> "idle", d |-> NoEntry, buf_len |-> 0]
    /\ g_msg = NoMsg /\ g_deliv = << >> /\ g_send = NoSendYet

CodecIdle ==
    /\ c_pc = "idle" /\ c_src = "raw" /\ c_ver = 0 /\ c_sst = << >> /\ c_ist = << >>
    /\ c_buf = [ok |-> FALSE, err |-> "", buf |-> << >>] /\ c_sr = NoRequest

IstIdle ==
    i_pc = "idle" /\ i_desc = IST_request_default /\ i_req = NoRequest
                  /\ i_istr = IST_request_default

NoGuard == [alive |-> FALSE, unlock_ |-> FALSE, unlocks |-> 0]

DonorIdle ==
    /\ d_pc = "idle"
    /\ d_in = [req |-> << >>, state_uuid |-> WSREP_UUID_UNDEFINED, donor_seq |-> 0,
               cc_seqno |-> 0, cache_low |-> 0, co_bypass |-> FALSE]
    /\ d_state = "S_SYNCED" /\ d_local = "out"
    /\ d_drained = [apply |-> -1, commit |-> -1]
    /\ d_streq = NoRequest /\ d_istr = IST_request_default
    /\ d_guard = NoGuard /\ d_after = ""
    /\ d_gcache = [locks |-> 0, unlocks |-> 0]
    /\ d_rcode = 0 /\ d_join_now = TRUE
    /\ d_sst_calls = << >> /\ d_ist_runs = << >> /\ d_sender = "none" /\ d_joins = << >>

NoMarker == [uuid |-> WSREP_UUID_UNDEFINED, seqno |-> WSREP_SEQNO_UNDEFINED,
             safe |-> TRUE, corrupt |-> FALSE]
NoReceiver == [phase |-> "none", first |-> 0, last |-> 0, cur |-> 0, finished |-> 0]
NoSend == [tries |-> 0, ret |-> 0, sent |-> FALSE]
NoCalls == [calls |-> 0, uuid_by |-> 0, seqno_by |-> 0, read |-> << >>]
NoCallback == [uuid |-> WSREP_UUID_UNDEFINED, seqno |-> WSREP_SEQNO_UNDEFINED,
               rcode |-> 0]

JoinerIdle ==
    /\ j_pc = "idle"
    /\ j_in = [group_uuid |-> WSREP_UUID_UNDEFINED, group_seqno |-> 0,
               state_uuid |-> WSREP_UUID_UNDEFINED, local_seqno |-> 0,
               sst |-> << >>, ver |-> 0, co_bypass |-> FALSE]
    /\ j_state = "S_CONNECTED" /\ j_state_uuid = WSREP_UUID_UNDEFINED
    /\ j_apply = WSREP_SEQNO_UNDEFINED /\ j_commit = WSREP_SEQNO_UNDEFINED
    /\ j_sst_state = "SST_NONE" /\ j_sst_uuid = WSREP_UUID_UNDEFINED
    /\ j_sst_seqno = WSREP_SEQNO_UNDEFINED
    /\ j_mutex = "free" /\ j_signalled = FALSE
    /\ j_st = NoMarker /\ j_req = NoRequest /\ j_ist_prepared = FALSE
    /\ j_ir = NoReceiver /\ j_send = NoSend
    /\ j_slots = [cancelled |-> 0, blocked |-> 0]
    /\ j_ret = 0 /\ j_closed = 0 /\ j_last_st_type = "ST_TYPE_NONE"
    /\ j_gcache = << >> /\ j_first = TRUE /\ j_fail = ""
    /\ j_reqs = [calls |-> 0, open |-> 0]
    /\ cb_pc = "idle" /\ cb_args = NoCallback /\ cb_ret = ""
    /\ cb_hist = NoCalls

CodecInit ==
    /\ IstIdle /\ DonorIdle /\ JoinerIdle /\ SeqnoIdle /\ GcommIdle
    /\ c_ver \in {0, 1, 2}
    /\ c_sr = NoRequest
    /\ \/ /\ c_pc = "input"
          /\ c_src = "encoder"
          /\ c_sst \in Payloads
          /\ c_ist \in Payloads
          /\ c_buf = [ok |-> FALSE, err |-> "", buf |-> << >>]
       \/ /\ c_pc = "wire"
          /\ c_src = "raw"
          /\ c_sst = << >>
          /\ c_ist = << >>
          /\ c_buf \in {[ok |-> TRUE, err |-> "", buf |-> b] : b \in RawBufs}

\* prepare_state_request: v0 under protocol 0, v1 under protocols 1 and 2
CodecEncode ==
    /\ c_pc = "input"
    /\ c_buf' = IF c_ver = 0
                THEN [ok |-> TRUE, err |-> "", buf |-> c_sst]
                ELSE EncodeV1(c_sst, c_ist)
    /\ c_pc' = "wire"
    /\ UNCHANGED <<c_src, c_ver, c_sst, c_ist, c_sr>>
    /\ UNCHANGED <<ivars, dvars, jvars, evars, gvars>>

\* read_state_request on the bytes received
CodecDecode ==
    /\ c_pc = "wire"
    /\ c_buf.ok
    /\ c_sr' = read_state_request(c_buf.buf)
    /\ c_pc' = "decoded"
    /\ UNCHANGED <<c_src, c_ver, c_sst, c_ist, c_buf>>
    /\ UNCHANGED <<ivars, dvars, jvars, evars, gvars>>

CodecNext == CodecEncode \/ CodecDecode

SpecCodec == CodecInit /\ [][CodecNext]_vars

-----------------------------------------------------------------------------
(* The IST descriptor applied to drawn inputs *)

UuidOf(k) == [i \in 1..16 |-> (16 * k + i) % 256]
UUID_A == UuidOf(10)
UUID_B == UuidOf(15)
UUIDs  == {UUID_A, UUID_B}

\* "tcp://j:4568", "j", "ssl://10.0.0.2:4568"
Peers == { <<116, 99, 112, 58, 47, 47, 106, 58, 52, 53, 54, 56>>,
           <<106>>,
           <<115, 115, 108, 58, 47, 47, 49, 48, 46, 48, 46, 48, 46, 50, 58, 52, 53, 54, 56>> }

\* "xb": an SST request of the application
SST_XB == <<120, 98>>

IstSeqnos == {0, 9} \cup {MaxSeqno - 2, MaxSeqno}

IstInit ==
    /\ CodecIdle /\ DonorIdle /\ JoinerIdle /\ SeqnoIdle /\ GcommIdle
    /\ i_pc = "input"
    /\ i_desc \in { IST_request(p, u, l, g) :
                      p \in Peers, u \in UUIDs, l \in IstSeqnos, g \in IstSeqnos \cup {-1} }
    /\ i_req = NoRequest
    /\ i_istr = IST_request_default

\* prepare_for_IST and prepare_state_request: the descriptor's text becomes
\* the IST part of a v1 request, beside an SST request or none
IstPrepare ==
    /\ i_pc = "input"
    /\ \E sst \in {<< >>, SST_XB} :
          i_req' = [kind |-> "v1", req |-> EncodeV1(sst, IstBuffer(i_desc)).buf]
    /\ i_pc' = "request"
    /\ UNCHANGED <<i_desc, i_istr>>
    /\ UNCHANGED <<cvars, dvars, jvars, evars, gvars>>

\* the donor reads the request and the descriptor in it
IstRead ==
    /\ i_pc = "request"
    /\ i_istr' = get_ist_request(read_state_request(i_req.req))
    /\ i_pc' = "parsed"
    /\ UNCHANGED <<i_desc, i_req>>
    /\ UNCHANGED <<cvars, dvars, jvars, evars, gvars>>

IstNext == IstPrepare \/ IstRead

SpecIst == IstInit /\ [][IstNext]_vars

-----------------------------------------------------------------------------
(* EVS sequence numbers: evs_seqno.hpp as check_seqno exercises it *)

\* #define EVS_SEQNO_MAX 0x8000U
SEQNO_MAX == 32768

seqno_eq(a, b) == a = b

\* a comparison that forgets the ring
seqno_lt_Plain(a, b) == a < b

\* a precedes b on the ring: less than half of it lies from a up to b
seqno_lt(a, b) ==
    IF a < b THEN b - a < SEQNO_MAX \div 2 ELSE a - b > SEQNO_MAX \div 2

seqno_gt(a, b) == ~(seqno_lt(a, b) \/ seqno_eq(a, b))

seqno_add(a, b) == (a + b) % SEQNO_MAX

seqno_dec(a, b) == (a + SEQNO_MAX - b) % SEQNO_MAX

seqno_next(a) == seqno_add(a, 1)

\* START_TEST(check_seqno): every fail_unless and fail_if of the test
check_seqno ==
    /\ seqno_eq(0, 0)
    /\ seqno_eq(SEQNO_MAX, SEQNO_MAX)
    /\ ~seqno_eq(5, SEQNO_MAX)
    /\ ~seqno_eq(SEQNO_MAX, 7)
    /\ seqno_lt(2, 4)
    /\ seqno_lt(SEQNO_MAX - 5, SEQNO_MAX - 2)
    /\ seqno_lt(SEQNO_MAX - 5, 1)
    /\ ~seqno_lt(5, 5)
    /\ ~seqno_lt(SEQNO_MAX - 5, SEQNO_MAX - 5)
    /\ ~seqno_lt(5, 5 + SEQNO_MAX \div 2)
    /\ seqno_gt(4, 2)
    /\ seqno_gt(SEQNO_MAX - 2, SEQNO_MAX - 5)
    /\ seqno_gt(1, SEQNO_MAX - 5)
    /\ ~seqno_gt(5, 5)
    /\ ~seqno_gt(SEQNO_MAX - 5, SEQNO_MAX - 5)
    /\ seqno_gt(5, 5 + SEQNO_MAX \div 2)
    /\ seqno_eq(seqno_add(1, 5), 6)
    /\ seqno_eq(seqno_add(SEQNO_MAX - 5, 6), 1)
    /\ seqno_eq(seqno_add(7, SEQNO_MAX - 5), 2)
    /\ seqno_eq(seqno_dec(0, 1), SEQNO_MAX - 1)
    /\ seqno_eq(seqno_dec(7, SEQNO_MAX - 5), 12)
    /\ seqno_eq(seqno_dec(42, 5), 37)
    /\ seqno_eq(seqno_next(SEQNO_MAX - 1), 0)

\* the operands tried: the values of the test, the two ends of the ring and
\* the values around its middle
SeqnoInputs ==
    {0, 1, 2, 4, 5, 6, 7, 12, 37, 42}
    \cup { SEQNO_MAX \div 2 + d : d \in {-2, -1, 0, 1, 5} }
    \cup { SEQNO_MAX - d : d \in {1, 2, 5} }

SeqnoInit ==
    /\ CodecIdle /\ IstIdle /\ DonorIdle /\ JoinerIdle /\ GcommIdle
    /\ e_pc = "input"
    /\ e_in \in [a : SeqnoInputs, b : SeqnoInputs]
    /\ e_out = NoSeqnoResult

\* the functions applied to the operands
E_Apply ==
    /\ e_pc = "input"
    /\ e_out' = [e_out EXCEPT !.add = seqno_add(e_in.a, e_in.b),
                              !.dec = seqno_dec(e_in.a, e_in.b),
                              !.lt = seqno_lt(e_in.a, e_in.b),
                              !.gt = seqno_gt(e_in.a, e_in.b),
                              !.eq = seqno_eq(e_in.a, e_in.b),
                              !.next = seqno_next(e_in.a)]
    /\ e_pc' = "applied"
    /\ UNCHANGED <<cvars, ivars, dvars, jvars, gvars, e_in>>

\* check_seqno run to its end
E_Test ==
    /\ e_pc = "applied"
    /\ e_out' = [e_out EXCEPT !.test = check_seqno]
    /\ e_pc' = "done"
    /\ UNCHANGED <<cvars, ivars, dvars, jvars, gvars, e_in>>

SeqnoNext == E_Apply \/ E_Test

SpecSeqno == SeqnoInit /\ [][SeqnoNext]_vars

-----------------------------------------------------------------------------
(* Donor: ReplicatorSMM::process_state_req *)

\* a descriptor text whose three separators are all 'x'
BadSepBuffer(istr) ==
    UuidPrint(istr.uuid) \o <<120>> \o Dec(istr.last_applied) \o <<120>>
        \o Dec(istr.group_seqno) \o <<120>> \o istr.peer \o <<0>>

DonorPeer == <<106>>

DonorSstRequests ==
    { << >>, TRIVIAL_SST \o <<0>>, WSREP_STATE_TRANSFER_NONE, SST_XB }

DonorIstRequests ==
    { << >>, <<122, 122, 0>> }
    \cup { IstBuffer(IST_request(DonorPeer, u, l, MaxSeqno - 1)) : u \in UUIDs, l \in {0, 9} }
    \cup { BadSepBuffer(IST_request(DonorPeer, UUID_A, 9, MaxSeqno)) }

\* the requests delivered to the donor: v1 envelopes, v0 payloads and two
\* envelopes the decoder rejects
DonorRequests ==
    { EncodeV1(sst, ist).buf : sst \in DonorSstRequests, ist \in DonorIstRequests }
    \cup DonorSstRequests
    \cup { MAGIC \o <<0, 0, 0, 0>>, MAGIC \o <<0>> \o htogl(5) \o htogl(0) }

DonorInit ==
    /\ CodecIdle /\ IstIdle /\ JoinerIdle /\ SeqnoIdle /\ GcommIdle
    /\ d_pc = "start"
    /\ d_in \in [req : DonorRequests, state_uuid : {UUID_A}, donor_seq : {MaxSeqno},
                 cc_seqno : {MaxSeqno - 1, MaxSeqno}, cache_low : {1, MaxSeqno - 1},
                 co_bypass : BOOLEAN]
    /\ d_state = "S_SYNCED" /\ d_local = "out"
    /\ d_drained = [apply |-> -1, commit |-> -1]
    /\ d_streq = NoRequest /\ d_istr = IST_request_default
    /\ d_guard = NoGuard /\ d_after = ""
    /\ d_gcache = [locks |-> 0, unlocks |-> 0]
    /\ d_rcode = 0 /\ d_join_now = TRUE
    /\ d_sst_calls = << >> /\ d_ist_runs = << >> /\ d_sender = "none" /\ d_joins = << >>

\* gcache_.seqno_lock(seqno) finds seqno in the cache (NotFound otherwise)
CacheHas(seqno) == d_in.cache_low <= seqno /\ seqno <= d_in.donor_seq

\* a donate_sst that returns the seqno whatever the callback answered
donate_sst_Seqno(seqno, ok) == seqno

\* donate_sst(recv_ctx, streq, state_id, bypass) when the callback returns
\* WSREP_CB_SUCCESS (ok) or anything else
donate_sst(seqno, ok) == IF ok THEN seqno ELSE 0 - ECANCELED

SstCall(uuid, seqno, bypass, ok) ==
    [uuid |-> uuid, seqno |-> seqno, bypass |-> bypass, ok |-> ok,
     in_local |-> d_local = "in", drained |-> d_drained]

\* LocalOrder lo(seqno_l); local_monitor_.enter(lo)
D_Enter ==
    /\ d_pc = "start"
    /\ UNCHANGED <<cvars, ivars, jvars, evars, gvars>>
    /\ d_local' = "in"
    /\ d_pc' = "entered"
    /\ UNCHANGED <<d_in, d_state, d_drained, d_streq, d_istr, d_guard, d_after,
                   d_gcache, d_rcode, d_join_now, d_sst_calls, d_ist_runs,
                   d_sender, d_joins>>

\* a drain that leaves the commit monitor alone
D_Drain_ApplyOnly ==
    /\ d_pc = "entered"
    /\ UNCHANGED <<cvars, ivars, jvars, evars, gvars>>
    /\ d_drained' = [apply |-> d_in.donor_seq, commit |-> -1]
    /\ d_pc' = "drained"
    /\ UNCHANGED <<d_in, d_state, d_local, d_streq, d_istr, d_guard, d_after,
                   d_gcache, d_rcode, d_join_now, d_sst_calls, d_ist_runs,
                   d_sender, d_joins>>

\* apply_monitor_.drain(donor_seq); commit_monitor_.drain(donor_seq) unless
\* commit order is bypassed
D_Drain ==
    /\ d_pc = "entered"
    /\ UNCHANGED <<cvars, ivars, jvars, evars, gvars>>
    /\ d_drained' = [apply  |-> d_in.donor_seq,
                     commit |-> IF d_in.co_bypass THEN -1 ELSE d_in.donor_seq]
    /\ d_pc' = "drained"
    /\ UNCHANGED <<d_in, d_state, d_local, d_streq, d_istr, d_guard, d_after,
                   d_gcache, d_rcode, d_join_now, d_sst_calls, d_ist_runs,
                   d_sender, d_joins>>

\* a test that attempts IST for the descriptor of any history
UuidMatches_Any(uuid, state_uuid) == TRUE

\* istr.uuid() == state_uuid_
UuidMatches(uuid, state_uuid) == uuid = state_uuid

\* state_.shift_to(S_DONOR); read_state_request; skip_state_transfer;
\* get_ist_request and the comparison of its uuid with state_uuid_.
\* An exception of the decoder or of the UUID extractor leaves the function.
D_Read ==
    /\ d_pc = "drained"
    /\ UNCHANGED <<cvars, ivars, jvars, evars, gvars>>
    /\ d_state' = "S_DONOR"
    /\ LET sr   == read_state_request(d_in.req)
           istr == get_ist_request(sr)
       IN  /\ d_streq' = sr
           /\ IF sr.kind = EINVAL
              THEN d_pc' = "threw" /\ UNCHANGED <<d_istr, d_guard>>
              ELSE IF skip_state_transfer(sr)
              THEN d_pc' = "out" /\ UNCHANGED <<d_istr, d_guard>>
              ELSE IF ist_len(sr) # 0
              THEN /\ d_istr' = istr
                   /\ IF istr.threw
                      THEN d_pc' = "threw" /\ UNCHANGED d_guard
                      ELSE IF UuidMatches(istr.uuid, d_in.state_uuid)
                      THEN /\ d_guard' = [alive |-> TRUE, unlock_ |-> FALSE, unlocks |-> 0]
                           /\ d_pc' = "lock"
                      ELSE d_pc' = "full_sst" /\ UNCHANGED d_guard
              ELSE d_pc' = "full_sst" /\ UNCHANGED <<d_istr, d_guard>>
    /\ UNCHANGED <<d_in, d_local, d_drained, d_after, d_gcache, d_rcode,
                   d_join_now, d_sst_calls, d_ist_runs, d_sender, d_joins>>

\* try { gcache_.seqno_lock(istr.last_applied() + 1); unlock_ = true; }
\* catch (gu::NotFound&) { -ENODATA and out without an SST request, full_sst
\* with one }
D_Lock ==
    /\ d_pc = "lock"
    /\ UNCHANGED <<cvars, ivars, jvars, evars, gvars>>
    /\ IF CacheHas(d_istr.last_applied + 1)
       THEN /\ d_gcache' = [d_gcache EXCEPT !.locks = @ + 1]
            /\ d_guard' = [d_guard EXCEPT !.unlock_ = TRUE]
            /\ d_pc' = "bypass"
            /\ UNCHANGED <<d_rcode, d_after>>
       ELSE /\ d_pc' = "scope_exit"
            /\ IF sst_len(d_streq) = 0
               THEN d_rcode' = 0 - ENODATA /\ d_after' = "out"
               ELSE d_after' = "full_sst" /\ UNCHANGED d_rcode
            /\ UNCHANGED <<d_gcache, d_guard>>
    /\ UNCHANGED <<d_in, d_state, d_local, d_drained, d_streq, d_istr,
                   d_join_now, d_sst_calls, d_ist_runs, d_sender, d_joins>>

\* if (streq->sst_len()) { rcode = donate_sst(.., {istr.uuid(),
\* istr.last_applied()}, true); join_now = false; }
D_Bypass ==
    /\ d_pc = "bypass"
    /\ UNCHANGED <<cvars, ivars, jvars, evars, gvars>>
    /\ IF sst_len(d_streq) # 0
       THEN \E ok \in BOOLEAN :
              /\ d_rcode' = donate_sst(d_istr.last_applied, ok)
              /\ d_sst_calls' = Append(d_sst_calls,
                                  SstCall(d_istr.uuid, d_istr.last_applied, TRUE, ok))
              /\ d_join_now' = FALSE
       ELSE UNCHANGED <<d_rcode, d_sst_calls, d_join_now>>
    /\ d_pc' = "run_ist"
    /\ UNCHANGED <<d_in, d_state, d_local, d_drained, d_streq, d_istr, d_guard,
                   d_after, d_gcache, d_ist_runs, d_sender, d_joins>>

\* the guard after ist_senders_.run returned: a slip that leaves unlock_ set
GuardAfterRun_Keep(g) == g

\* the guard after ist_senders_.run returned: seqno_lock_guard.unlock_ = false
GuardAfterRun(g) == [g EXCEPT !.unlock_ = FALSE]

\* a range that ends where the joiner's descriptor says
IstRangeEnd_GroupSeqno(cc_seqno, istr) == istr.group_seqno

\* the end of the range handed to ist_senders_.run: cc_seqno_
IstRangeEnd(cc_seqno, istr) == cc_seqno

\* if (rcode >= 0) { try { ist_senders_.run(.., istr.peer(),
\* istr.last_applied() + 1, cc_seqno_, ..); unlock_ = false; }
\* catch (gu::Exception& e) { rcode = -e.get_errno(); } }  goto out;
D_RunIST ==
    /\ d_pc = "run_ist"
    /\ UNCHANGED <<cvars, ivars, jvars, evars, gvars>>
    /\ IF d_rcode >= 0
       THEN \E started \in BOOLEAN :
              IF started
              THEN /\ d_ist_runs' = Append(d_ist_runs,
                                      [peer |-> d_istr.peer,
                                       first |-> d_istr.last_applied + 1,
                                       last |-> IstRangeEnd(d_in.cc_seqno, d_istr),
                                       in_local |-> d_local = "in",
                                       drained |-> d_drained])
                   /\ d_sender' = "running"
                   /\ d_guard' = GuardAfterRun(d_guard)
                   /\ UNCHANGED d_rcode
              ELSE /\ d_rcode' = 0 - ENOMEM
                   /\ UNCHANGED <<d_ist_runs, d_sender, d_guard>>
       ELSE UNCHANGED <<d_rcode, d_ist_runs, d_sender, d_guard>>
    /\ d_after' = "out"
    /\ d_pc' = "scope_exit"
    /\ UNCHANGED <<d_in, d_state, d_local, d_drained, d_streq, d_istr,
                   d_gcache, d_join_now, d_sst_calls, d_joins>>

\* ~sgl() { if (unlock_) gcache_.seqno_unlock(); } as control leaves the
\* block of seqno_lock_guard
D_ScopeExit ==
    /\ d_pc = "scope_exit"
    /\ UNCHANGED <<cvars, ivars, jvars, evars, gvars>>
    /\ IF d_guard.unlock_
       THEN /\ d_gcache' = [d_gcache EXCEPT !.unlocks = @ + 1]
            /\ d_guard' = [d_guard EXCEPT !.alive = FALSE, !.unlocks = @ + 1]
       ELSE /\ d_guard' = [d_guard EXCEPT !.alive = FALSE]
            /\ UNCHANGED d_gcache
    /\ d_pc' = d_after
    /\ UNCHANGED <<d_in, d_state, d_local, d_drained, d_streq, d_istr, d_after,
                   d_rcode, d_join_now, d_sst_calls, d_ist_runs, d_sender, d_joins>>

\* full_sst: donate_sst(.., {state_uuid_, donor_seq}, false) with an SST
\* request, -ECANCELED without one
D_FullSST ==
    /\ d_pc = "full_sst"
    /\ UNCHANGED <<cvars, ivars, jvars, evars, gvars>>
    /\ IF sst_len(d_streq) # 0
       THEN \E ok \in BOOLEAN :
              /\ d_rcode' = donate_sst(d_in.donor_seq, ok)
              /\ d_sst_calls' = Append(d_sst_calls,
                                  SstCall(d_in.state_uuid, d_in.donor_seq, FALSE, ok))
              /\ d_join_now' = FALSE
       ELSE /\ d_rcode' = 0 - ECANCELED
            /\ UNCHANGED <<d_sst_calls, d_join_now>>
    /\ d_pc' = "out"
    /\ UNCHANGED <<d_in, d_state, d_local, d_drained, d_streq, d_istr, d_guard,
                   d_after, d_gcache, d_ist_runs, d_sender, d_joins>>

\* out: delete streq; local_monitor_.leave(lo)
D_Leave ==
    /\ d_pc = "out"
    /\ UNCHANGED <<cvars, ivars, jvars, evars, gvars>>
    /\ d_local' = "left"
    /\ d_pc' = "join"
    /\ UNCHANGED <<d_in, d_state, d_drained, d_streq, d_istr, d_guard, d_after,
                   d_gcache, d_rcode, d_join_now, d_sst_calls, d_ist_runs,
                   d_sender, d_joins>>

\* a join that always announces the donor's seqno
JoinStatus_DonorSeq(rcode, donor_seq) == donor_seq

\* rcode < 0 ? rcode : donor_seq
JoinStatus(rcode, donor_seq) == IF rcode < 0 THEN rcode ELSE donor_seq

\* a test that forgets the negative result
JoinNow_FlagOnly(join_now, rcode) == join_now

\* if (join_now || rcode < 0)
JoinNow(join_now, rcode) == join_now \/ rcode < 0

\* if (join_now || rcode < 0) gcs_.join(rcode < 0 ? rcode : donor_seq)
D_Join ==
    /\ d_pc = "join"
    /\ UNCHANGED <<cvars, ivars, jvars, evars, gvars>>
    /\ d_joins' = IF JoinNow(d_join_now, d_rcode)
                  THEN Append(d_joins, JoinStatus(d_rcode, d_in.donor_seq))
                  ELSE d_joins
    /\ d_pc' = "done"
    /\ UNCHANGED <<d_in, d_state, d_local, d_drained, d_streq, d_istr, d_guard,
                   d_after, d_gcache, d_rcode, d_join_now, d_sst_calls,
                   d_ist_runs, d_sender>>

\* the IST sender reaches the end of its stream: it releases the cache lock
\* that it owns and exits
D_SenderExit ==
    /\ d_sender = "running"
    /\ UNCHANGED <<cvars, ivars, jvars, evars, gvars>>
    /\ d_gcache' = [d_gcache EXCEPT !.unlocks = @ + 1]
    /\ d_sender' = "done"
    /\ UNCHANGED <<d_pc, d_in, d_state, d_local, d_drained, d_streq, d_istr,
                   d_guard, d_after, d_rcode, d_join_now, d_sst_calls,
                   d_ist_runs, d_joins>>

DonorNext ==
    \/ D_Enter \/ D_Drain \/ D_Read \/ D_Lock \/ D_Bypass \/ D_RunIST
    \/ D_ScopeExit \/ D_FullSST \/ D_Leave \/ D_Join \/ D_SenderExit

SpecDonor == DonorInit /\ [][DonorNext]_vars

-----------------------------------------------------------------------------
(* The joiner: request_state_transfer, send_state_request, recv_IST and the *)
(* sst_received callback of the application thread                          *)

EDEADLK == 35

\* send attempts of one run of send_state_request
MaxTries == 2

\* the group position passed to request_state_transfer
GroupSeqno == MaxSeqno - 2

\* a test that takes a closing connection for a live one
Live_ClosingToo(state) == state \notin {"S_DESTROYED", "S_CLOSED"}

\* a test that takes every state for one of a closing connection
Live_Never(state) == FALSE

\* state_() > S_CLOSING
Live(state) == state \notin {"S_DESTROYED", "S_CLOSED", "S_CLOSING"}

\* sst_state_ < SST_REQ_FAILED
BelowReqFailed(s) == s \in {"SST_NONE", "SST_WAIT", "SST_CANCELED"}

\* st_.set(uuid, seqno, safe_to_bootstrap)
st_set(st, uuid, seqno) == [st EXCEPT !.uuid = uuid, !.seqno = seqno]
\* st_.mark_unsafe()
st_mark_unsafe(st) == [st EXCEPT !.safe = FALSE]
\* st_.mark_safe()
st_mark_safe(st) == [st EXCEPT !.safe = TRUE]
\* st_.mark_corrupt()
st_mark_corrupt(st) == [st EXCEPT !.corrupt = TRUE, !.safe = FALSE]

\* a test that forgets the trivial request
Unsafe_AnyPayload(sst) == Len(sst) # 0

\* bool unsafe = sst_req_len != 0 && !trivial
Unsafe(sst) == Len(sst) # 0 /\ ~sst_is_trivial(sst)

\* a callback that does not record the cancellation
SstStateOnEntry_Keep(rcode, cur) == cur

\* sst_received: if (rcode != -ECANCELED) .. else sst_state_ = SST_CANCELED
SstStateOnEntry(rcode, cur) ==
    IF rcode # 0 - ECANCELED THEN cur ELSE "SST_CANCELED"

\* a step that restores the flag and leaves the seqno in the marker
MarkerBeforeIST_KeepSeqno(st, uuid, unsafe) == IF unsafe THEN st_mark_safe(st) ELSE st

\* a clearing of the marker that forgets to restore the flag
MarkerBeforeIST_NoSafe(st, uuid, unsafe) == st_set(st, uuid, WSREP_SEQNO_UNDEFINED)

\* st_.set(state_uuid_, WSREP_SEQNO_UNDEFINED, ..); if (unsafe) st_.mark_safe()
MarkerBeforeIST(st, uuid, unsafe) ==
    IF unsafe THEN st_mark_safe(st_set(st, uuid, WSREP_SEQNO_UNDEFINED))
    ELSE st_set(st, uuid, WSREP_SEQNO_UNDEFINED)

\* st_.get(..); if (seqno != WSREP_SEQNO_UNDEFINED) st_.set(uuid, UNDEFINED, ..)
MarkerReset(st) ==
    IF st.seqno # WSREP_SEQNO_UNDEFINED THEN st_set(st, st.uuid, WSREP_SEQNO_UNDEFINED)
    ELSE st

\* an installation that stops after the reset of the monitor
InitialPosition_Reset(seqno) == WSREP_SEQNO_UNDEFINED

\* apply_monitor_.set_initial_position(-1);
\* apply_monitor_.set_initial_position(sst_seqno_): where the monitor stands
InitialPosition(seqno) == seqno

\* an installation that leaves the commit monitor where it was
CommitPosition_Skip(co_bypass, cur, seqno) == cur

\* if (co_mode_ != CommitOrder::BYPASS) {
\* commit_monitor_.set_initial_position(-1);
\* commit_monitor_.set_initial_position(sst_seqno_); }
CommitPosition(co_bypass, cur, seqno) ==
    IF co_bypass THEN cur ELSE InitialPosition(seqno)

\* a test that does not look at the position
IstAllowed_AnySeqno(sst_state, state, seqno, group_seqno) ==
    BelowReqFailed(sst_state) /\ state = "S_JOINING"

\* sst_state_ < SST_REQ_FAILED && state_() == S_JOINING &&
\* STATE_SEQNO() < group_seqno
IstAllowed(sst_state, state, seqno, group_seqno) ==
    BelowReqFailed(sst_state) /\ state = "S_JOINING" /\ seqno < group_seqno

\* ist_receiver_.finished(): the last seqno received
ReceiverLast(ir) == ir.cur - 1

\* "trivial" with its NUL, and the application's request
JoinerSstRequests == { << >>, TRIVIAL_SST \o <<0>>, SST_XB }

\* the address ist_receiver_.prepare() returns: "tcp://j:4568"
JoinerPeer == <<116, 99, 112, 58, 47, 47, 106, 58, 52, 53, 54, 56>>

\* what gcs_.request_state_transfer may return, with the seqno_l it sets
GcsOutcomes ==
    [ret : {0, 0 - EAGAIN, 0 - ENOTCONN, 0 - ENODATA, 0 - EPERM},
     seqno_l : {GCS_SEQNO_ILL, 1}]

\* what the application may pass to sst_received
CallbackArgs ==
    { [uuid |-> u, seqno |-> s, rcode |-> 0] :
          u \in UUIDs, s \in {GroupSeqno - 2, GroupSeqno, GroupSeqno + 1} }
    \cup { [uuid |-> u, seqno |-> WSREP_SEQNO_UNDEFINED, rcode |-> r] :
          u \in UUIDs, r \in {0 - ECANCELED, 0 - EPERM} }

\* a test that asks for a transfer whatever the local position is
state_transfer_required_Always(state_uuid, local_seqno, group_uuid, group_seqno) == TRUE

\* state_transfer_required(view_info) for a view with a state gap
state_transfer_required(state_uuid, local_seqno, group_uuid, group_seqno) ==
    IF state_uuid = group_uuid THEN local_seqno < group_seqno ELSE TRUE

\* request_state_transfer is called for the views that require a transfer
JoinerInputs ==
    { i \in [group_uuid : {UUID_A}, group_seqno : {GroupSeqno},
             state_uuid : UUIDs,
             local_seqno : {WSREP_SEQNO_UNDEFINED, GroupSeqno - 2, GroupSeqno},
             sst : JoinerSstRequests, ver : {0, 1, 2}, co_bypass : BOOLEAN] :
        /\ state_transfer_required(i.state_uuid, i.local_seqno,
                                   i.group_uuid, i.group_seqno)
        /\ Len(i.sst) = 0 => i.state_uuid = i.group_uuid }

JoinerInit ==
    /\ CodecIdle /\ IstIdle /\ DonorIdle /\ SeqnoIdle /\ GcommIdle
    /\ j_pc = "prepare"
    /\ j_in \in JoinerInputs
    /\ j_state = "S_CONNECTED" /\ j_state_uuid = j_in.state_uuid
    /\ j_apply = j_in.local_seqno /\ j_commit = j_in.local_seqno
    /\ j_sst_state = "SST_NONE" /\ j_sst_uuid = WSREP_UUID_UNDEFINED
    /\ j_sst_seqno = WSREP_SEQNO_UNDEFINED
    /\ j_mutex = "free" /\ j_signalled = FALSE
    /\ j_st \in { [uuid |-> j_in.state_uuid, seqno |-> s, safe |-> TRUE,
                   corrupt |-> FALSE] : s \in {WSREP_SEQNO_UNDEFINED, j_in.local_seqno} }
    /\ j_req = NoRequest /\ j_ist_prepared = FALSE
    /\ j_ir = NoReceiver /\ j_send = NoSend
    /\ j_slots = [cancelled |-> 0, blocked |-> 0]
    /\ j_ret = 0 /\ j_closed = 0 /\ j_last_st_type = "ST_TYPE_NONE"
    /\ j_gcache = << >> /\ j_first = TRUE /\ j_fail = ""
    /\ j_reqs = [calls |-> 1, open |-> 0]
    /\ cb_pc = "idle" /\ cb_args = NoCallback /\ cb_ret = ""
    /\ cb_hist = NoCalls

\* prepare_state_request (with prepare_for_IST) and sst_is_trivial;
\* listen: ist_receiver_.prepare() returned an address and did not throw
J_Prepare ==
    /\ j_pc = "prepare"
    /\ UNCHANGED <<cvars, ivars, dvars, evars, gvars, j_in, j_state, j_state_uuid, j_apply,
                   j_commit, j_sst_state, j_sst_uuid, j_sst_seqno, j_mutex,
                   j_signalled, j_st, j_send, j_slots, j_ret, j_closed,
                   j_last_st_type, j_gcache, j_first, cb_pc, cb_args,
                   cb_ret,
                   j_fail, j_reqs, cb_hist>>
    /\ IF j_in.ver = 0
       THEN /\ j_req' = StateRequest_v0(j_in.sst)
            /\ j_pc' = "lock"
            /\ UNCHANGED <<j_ir, j_ist_prepared>>
       ELSE \E listen \in BOOLEAN :
            LET can  == /\ j_state_uuid = j_in.group_uuid
                        /\ j_apply >= 0
                        /\ listen
                istr == IST_request(JoinerPeer, j_state_uuid, j_apply, j_in.group_seqno)
                enc  == EncodeV1(j_in.sst, IF can THEN IstBuffer(istr) ELSE << >>)
            IN  /\ j_ist_prepared' = can
                /\ j_ir' = IF can
                           THEN [phase |-> "prepared", first |-> j_apply + 1,
                                 last |-> j_in.group_seqno, cur |-> j_apply + 1,
                                 finished |-> 0]
                           ELSE j_ir
                /\ j_req' = IF enc.ok THEN [kind |-> "v1", req |-> enc.buf] ELSE j_req
                /\ j_pc' = IF enc.ok THEN "lock" ELSE "aborted"

\* gu::Lock lock(sst_mutex_)
J_Lock ==
    /\ j_pc = "lock"
    /\ j_mutex = "free"
    /\ UNCHANGED <<cvars, ivars, dvars, evars, gvars, j_in, j_state, j_state_uuid, j_apply,
                   j_commit, j_sst_state, j_sst_uuid, j_sst_seqno,
                   j_signalled, j_st, j_req, j_ist_prepared, j_ir, j_send,
                   j_slots, j_ret, j_closed, j_last_st_type, j_gcache,
                   j_first, cb_pc, cb_args, cb_ret,
                   j_fail, j_reqs, cb_hist>>
    /\ j_mutex' = "joiner"
    /\ j_pc' = "mark"

\* unsafe; if (unsafe) st_.mark_unsafe(); sst_state_ = SST_WAIT
J_MarkUnsafe ==
    /\ j_pc = "mark"
    /\ UNCHANGED <<cvars, ivars, dvars, evars, gvars, j_in, j_state, j_state_uuid, j_apply,
                   j_commit, j_sst_uuid, j_sst_seqno, j_mutex, j_signalled,
                   j_req, j_ist_prepared, j_ir, j_send, j_slots, j_ret,
                   j_closed, j_last_st_type, j_gcache, j_first, cb_pc,
                   cb_args, cb_ret,
                   j_fail, j_reqs, cb_hist>>
    /\ j_st' = IF Unsafe(j_in.sst) THEN st_mark_unsafe(j_st) ELSE j_st
    /\ j_sst_state' = "SST_WAIT"
    /\ j_pc' = "send"

\* a test that takes only -EAGAIN for a reason to try again
retry_str_AgainOnly(ret) == ret = 0 - EAGAIN

\* retry_str(ret)
retry_str(ret) == ret = 0 - EAGAIN \/ ret = 0 - ENOTCONN

\* an abort that leaves the marker as it is
MarkerOnNoData_Keep(st, unsafe) == st

\* if (ret == -ENODATA) { if (unsafe) st_.mark_safe(); .. abort(); }
MarkerOnNoData(st, unsafe) == IF unsafe THEN st_mark_safe(st) ELSE st

\* send_state_request: one turn of the do .. while loop; wb is what
\* local_monitor_.would_block(seqno_l) answers. A result that asks for one
\* more turn is drawn only while turns remain.
J_Send ==
    /\ j_pc = "send"
    /\ UNCHANGED <<cvars, ivars, dvars, evars, gvars, j_in, j_state, j_state_uuid, j_apply,
                   j_commit, j_sst_state, j_sst_uuid, j_sst_seqno, j_mutex,
                   j_signalled, j_req, j_ist_prepared, j_ir, j_ret,
                   j_closed, j_last_st_type, j_gcache, j_first, cb_pc,
                   cb_args, cb_ret,
                   j_fail, cb_hist>>
    /\ \E o \in GcsOutcomes, wb \in BOOLEAN :
       LET tries   == j_send.tries + 1
           sent    == j_send.sent \/ o.ret >= 0
           blocked == o.seqno_l # GCS_SEQNO_ILL /\ wb
           ret     == IF blocked THEN 0 - EDEADLK ELSE o.ret
       IN  /\ retry_str(ret) => tries < MaxTries
           /\ j_reqs' = IF o.ret >= 0 THEN [j_reqs EXCEPT !.open = @ + 1]
                                      ELSE j_reqs
           /\ IF o.ret = 0 - ENODATA
              THEN /\ j_st' = MarkerOnNoData(j_st, Unsafe(j_in.sst))
                   /\ j_send' = [tries |-> tries, ret |-> o.ret, sent |-> sent]
                   /\ j_slots' = j_slots
                   /\ j_pc' = "aborted"
              ELSE /\ j_st' = j_st
                   /\ j_send' = [tries |-> tries, ret |-> ret, sent |-> sent]
                   /\ j_slots' =
                        IF o.seqno_l = GCS_SEQNO_ILL THEN j_slots
                        ELSE IF wb THEN [j_slots EXCEPT !.blocked = @ + 1]
                        ELSE [j_slots EXCEPT !.cancelled = @ + 1]
                   /\ j_pc' = IF retry_str(ret) THEN "send" ELSE "send_end"

\* send_state_request after the loop
J_SendEnd ==
    /\ j_pc = "send_end"
    /\ UNCHANGED <<cvars, ivars, dvars, evars, gvars, j_in, j_state, j_state_uuid, j_apply,
                   j_commit, j_sst_uuid, j_sst_seqno, j_mutex, j_signalled,
                   j_req, j_ist_prepared, j_ir, j_send, j_slots, j_ret,
                   j_closed, j_last_st_type, j_gcache, j_first, cb_pc,
                   cb_args, cb_ret,
                   j_fail, j_reqs, cb_hist>>
    /\ IF j_send.ret >= 0
       THEN /\ j_pc' = "after_send"
            /\ UNCHANGED <<j_sst_state, j_st>>
       ELSE LET st1 == st_set(j_st, j_state_uuid, j_apply)
            IN  /\ j_sst_state' = "SST_REQ_FAILED"
                /\ IF j_send.ret # 0 - ENODATA /\ Live(j_state)
                   THEN /\ j_st' = IF ~Unsafe(j_in.sst) THEN st_mark_unsafe(st1) ELSE st1
                        /\ j_pc' = "aborted"
                   ELSE /\ j_st' = IF Unsafe(j_in.sst) THEN st_mark_safe(st1) ELSE st1
                        /\ j_pc' = "after_send"

\* if (ret < 0) { .. return ret; } state_.shift_to(S_JOINING);
\* gcache_.seqno_reset(group_uuid, group_seqno)
J_AfterSend ==
    /\ j_pc = "after_send"
    /\ UNCHANGED <<cvars, ivars, dvars, evars, gvars, j_in, j_state_uuid, j_apply, j_commit,
                   j_sst_state, j_sst_uuid, j_sst_seqno, j_signalled, j_st,
                   j_req, j_send, j_slots, j_closed, j_last_st_type,
                   j_first, cb_pc, cb_args, cb_ret,
                   j_fail, j_reqs, cb_hist>>
    /\ IF j_send.ret < 0
       THEN /\ j_ist_prepared' = FALSE
            /\ j_ir' = IF j_ist_prepared
                       THEN [j_ir EXCEPT !.phase = "finished", !.finished = @ + 1]
                       ELSE j_ir
            /\ j_ret' = j_send.ret
            /\ j_mutex' = "free"
            /\ j_pc' = "done"
            /\ UNCHANGED <<j_state, j_gcache>>
       ELSE /\ j_state' = "S_JOINING"
            /\ j_gcache' = Append(j_gcache, [uuid |-> j_in.group_uuid,
                                             seqno |-> j_in.group_seqno])
            /\ j_pc' = "await"
            /\ UNCHANGED <<j_ist_prepared, j_ir, j_ret, j_mutex>>

\* if (sst_req_len != 0) { if (trivial) {..} else lock.wait(sst_cond_) .. }
J_Await ==
    /\ j_pc = "await"
    /\ UNCHANGED <<cvars, ivars, dvars, evars, gvars, j_in, j_state, j_state_uuid, j_apply,
                   j_commit, j_sst_state, j_st, j_req, j_ist_prepared,
                   j_ir, j_send, j_slots, j_ret, j_closed, j_last_st_type,
                   j_gcache, j_first, cb_pc, cb_args, cb_ret,
                   j_fail>>
    /\ IF Len(j_in.sst) = 0
       THEN /\ j_pc' = "clear"
            /\ j_reqs' = [j_reqs EXCEPT !.open = @ - 1]
            /\ UNCHANGED <<j_sst_uuid, j_sst_seqno, j_mutex, j_signalled, cb_hist>>
       ELSE IF sst_is_trivial(j_in.sst)
       THEN /\ j_sst_uuid' = j_in.group_uuid
            /\ j_sst_seqno' = j_in.group_seqno
            /\ j_pc' = "result"
            /\ UNCHANGED <<j_mutex, j_signalled, j_reqs, cb_hist>>
       ELSE /\ j_mutex' = "free"
            /\ j_signalled' = FALSE
            /\ j_pc' = "waiting"
            /\ UNCHANGED <<j_sst_uuid, j_sst_seqno, j_reqs, cb_hist>>

\* lock.wait(sst_cond_) returns: signalled, and the mutex taken again
J_Wake ==
    /\ j_pc = "waiting"
    /\ j_signalled
    /\ j_mutex = "free"
    /\ UNCHANGED <<cvars, ivars, dvars, evars, gvars, j_in, j_state, j_state_uuid, j_apply,
                   j_commit, j_sst_state, j_sst_uuid, j_sst_seqno,
                   j_signalled, j_st, j_req, j_ist_prepared, j_ir, j_send,
                   j_slots, j_ret, j_closed, j_last_st_type, j_gcache,
                   j_first, cb_pc, cb_args, cb_ret,
                   j_fail, j_reqs, cb_hist>>
    /\ j_mutex' = "joiner"
    /\ j_pc' = "result"

\* a test that takes every state the application received for the right one
WrongState_Never(sst_uuid, group_uuid) == FALSE

\* else if (sst_uuid_ != group_uuid): "Application received wrong state"
WrongState(sst_uuid, group_uuid) == sst_uuid # group_uuid

\* the three outcomes of the SST: cancelled, wrong uuid, installed
J_Result ==
    /\ j_pc = "result"
    /\ j_reqs' = [j_reqs EXCEPT !.open = @ - 1]
    /\ cb_hist' = [cb_hist EXCEPT !.read = <<cb_hist.uuid_by, cb_hist.seqno_by>>]
    /\ UNCHANGED <<cvars, ivars, dvars, evars, gvars, j_in, j_state, j_sst_uuid,
                   j_sst_seqno, j_signalled, j_req, j_ist_prepared, j_ir,
                   j_send, j_slots, j_gcache, j_first, cb_pc, cb_args,
                   cb_ret,
                   j_fail>>
    /\ IF j_sst_state = "SST_CANCELED"
       THEN /\ j_st' = IF ~Unsafe(j_in.sst) THEN st_mark_unsafe(j_st) ELSE j_st
            /\ j_closed' = j_closed + 1
            /\ j_ret' = 0 - ECANCELED
            /\ j_mutex' = "free"
            /\ j_pc' = "done"
            /\ UNCHANGED <<j_sst_state, j_state_uuid, j_apply, j_commit, j_last_st_type>>
       ELSE IF WrongState(j_sst_uuid, j_in.group_uuid)
       THEN /\ j_sst_state' = "SST_FAILED"
            /\ j_st' = IF Unsafe(j_in.sst)
                       THEN st_mark_safe(st_set(j_st, j_sst_uuid, j_sst_seqno))
                       ELSE st_set(j_st, j_sst_uuid, j_sst_seqno)
            /\ j_pc' = "aborted"
            /\ UNCHANGED <<j_closed, j_ret, j_mutex, j_state_uuid, j_apply, j_commit,
                           j_last_st_type>>
       ELSE /\ j_state_uuid' = j_sst_uuid
            /\ j_st' = st_set(j_st, j_sst_uuid, j_sst_seqno)
            /\ j_apply' = InitialPosition(j_sst_seqno)
            /\ j_commit' = CommitPosition(j_in.co_bypass, j_commit, j_sst_seqno)
            /\ j_last_st_type' = "ST_TYPE_SST"
            /\ j_pc' = "clear"
            /\ UNCHANGED <<j_sst_state, j_closed, j_ret, j_mutex>>

\* st_.set(state_uuid_, WSREP_SEQNO_UNDEFINED, ..); if (unsafe) st_.mark_safe()
J_Clear ==
    /\ j_pc = "clear"
    /\ UNCHANGED <<cvars, ivars, dvars, evars, gvars, j_in, j_state, j_state_uuid, j_apply,
                   j_commit, j_sst_state, j_sst_uuid, j_sst_seqno, j_mutex,
                   j_signalled, j_req, j_ist_prepared, j_ir, j_send,
                   j_slots, j_ret, j_closed, j_last_st_type, j_gcache,
                   j_first, cb_pc, cb_args, cb_ret,
                   j_fail, j_reqs, cb_hist>>
    /\ j_st' = MarkerBeforeIST(j_st, j_state_uuid, Unsafe(j_in.sst))
    /\ j_pc' = "ist_check"

\* if (req->ist_len() > 0) { if (..) { ist_receiver_.ready(); recv_IST ..
J_IstCheck ==
    /\ j_pc = "ist_check"
    /\ UNCHANGED <<cvars, ivars, dvars, evars, gvars, j_in, j_state, j_state_uuid, j_apply,
                   j_commit, j_sst_state, j_sst_uuid, j_sst_seqno, j_mutex,
                   j_signalled, j_st, j_req, j_send, j_slots, j_ret,
                   j_closed, j_last_st_type, j_gcache, cb_pc, cb_args,
                   cb_ret,
                   j_fail, j_reqs, cb_hist>>
    /\ IF ist_len(j_req) > 0
          /\ IstAllowed(j_sst_state, j_state, j_apply, j_in.group_seqno)
       THEN /\ j_ir' = [j_ir EXCEPT !.phase = "ready"]
            /\ j_first' = TRUE
            /\ j_pc' = "recv"
            /\ UNCHANGED j_ist_prepared
       ELSE /\ j_ist_prepared' = FALSE
            /\ j_ir' = IF ist_len(j_req) > 0 /\ j_ist_prepared
                       THEN [j_ir EXCEPT !.phase = "finished", !.finished = @ + 1]
                       ELSE j_ir
            /\ j_pc' = "final"
            /\ UNCHANGED j_first

\* what one turn of the loop of recv_IST meets
RecvOutcomes == {"trx", "dummy", "end", "recv_throws", "bad_checksum", "apply_throws"}

MarkerOnApplyFailure_Keep(st) == st

\* catch (...) { st_.mark_corrupt(); throw; } around apply_trx
MarkerOnApplyFailure(st) == st_mark_corrupt(st)

\* recv_IST: one turn of the loop
J_Recv ==
    /\ j_pc = "recv"
    /\ UNCHANGED <<cvars, ivars, dvars, evars, gvars, j_in, j_state, j_state_uuid,
                   j_sst_state, j_sst_uuid, j_sst_seqno, j_mutex,
                   j_signalled, j_req, j_ist_prepared, j_send, j_slots,
                   j_ret, j_closed, j_last_st_type, j_gcache, cb_pc,
                   cb_args, cb_ret, j_reqs, cb_hist>>
    /\ \E o \in RecvOutcomes :
       LET seqno == j_ir.cur
           st1   == IF j_first THEN MarkerReset(j_st) ELSE j_st
       IN  /\ o \notin {"end", "recv_throws"} => seqno <= j_ir.last
           /\ IF o = "end"
              THEN /\ j_pc' = "ist_end"
                   /\ UNCHANGED <<j_st, j_first, j_apply, j_commit, j_ir, j_fail>>
              ELSE IF o = "recv_throws"
              THEN /\ j_pc' = "aborted"
                   /\ j_fail' = "recv"
                   /\ UNCHANGED <<j_st, j_first, j_apply, j_commit, j_ir>>
              ELSE IF o = "bad_checksum"
              THEN /\ j_st' = st1
                   /\ j_first' = FALSE
                   /\ j_fail' = "checksum"
                   /\ j_pc' = "aborted"
                   /\ UNCHANGED <<j_apply, j_commit, j_ir>>
              ELSE IF o = "apply_throws"
              THEN /\ j_st' = MarkerOnApplyFailure(st1)
                   /\ j_first' = FALSE
                   /\ j_fail' = "apply"
                   /\ j_pc' = "aborted"
                   /\ UNCHANGED <<j_apply, j_commit, j_ir>>
              ELSE /\ j_st' = st1
                   /\ j_first' = FALSE
                   /\ j_apply' = seqno
                   /\ j_commit' = IF j_in.co_bypass THEN j_commit ELSE seqno
                   /\ j_ir' = [j_ir EXCEPT !.cur = seqno + 1]
                   /\ j_pc' = "recv"
                   /\ UNCHANGED j_fail

\* if (ist_prepared_) { ist_prepared_ = false; sst_seqno_ = finished(); }
\* last_st_type_ = ST_TYPE_IST
J_IstEnd ==
    /\ j_pc = "ist_end"
    /\ UNCHANGED <<cvars, ivars, dvars, evars, gvars, j_in, j_state, j_state_uuid, j_apply,
                   j_commit, j_sst_state, j_sst_uuid, j_mutex, j_signalled,
                   j_st, j_req, j_send, j_slots, j_ret, j_closed, j_gcache,
                   j_first, cb_pc, cb_args, cb_ret,
                   j_fail, j_reqs, cb_hist>>
    /\ j_ist_prepared' = FALSE
    /\ j_sst_seqno' = IF j_ist_prepared THEN ReceiverLast(j_ir) ELSE j_sst_seqno
    /\ j_ir' = IF j_ist_prepared
               THEN [j_ir EXCEPT !.phase = "finished", !.finished = @ + 1]
               ELSE j_ir
    /\ j_last_st_type' = "ST_TYPE_IST"
    /\ j_pc' = "drain"

\* a drain that returns at once
J_Drain_NoWait ==
    /\ j_pc = "drain"
    /\ UNCHANGED <<cvars, ivars, dvars, evars, gvars, j_in, j_state, j_state_uuid, j_apply,
                   j_commit, j_sst_state, j_sst_uuid, j_sst_seqno, j_mutex,
                   j_signalled, j_st, j_req, j_ist_prepared, j_ir, j_send,
                   j_slots, j_ret, j_closed, j_last_st_type, j_gcache,
                   j_first, cb_pc, cb_args, cb_ret,
                   j_fail, j_reqs, cb_hist>>
    /\ j_pc' = "final"

\* apply_monitor_.drain(sst_seqno_) returns once the monitor has reached it
J_Drain ==
    /\ j_pc = "drain"
    /\ j_apply >= j_sst_seqno
    /\ UNCHANGED <<cvars, ivars, dvars, evars, gvars, j_in, j_state, j_state_uuid, j_apply,
                   j_commit, j_sst_state, j_sst_uuid, j_sst_seqno, j_mutex,
                   j_signalled, j_st, j_req, j_ist_prepared, j_ir, j_send,
                   j_slots, j_ret, j_closed, j_last_st_type, j_gcache,
                   j_first, cb_pc, cb_args, cb_ret,
                   j_fail, j_reqs, cb_hist>>
    /\ j_pc' = "final"

\* the final reset of the marker; return 0
J_Final ==
    /\ j_pc = "final"
    /\ UNCHANGED <<cvars, ivars, dvars, evars, gvars, j_in, j_state, j_state_uuid, j_apply,
                   j_commit, j_sst_state, j_sst_uuid, j_sst_seqno,
                   j_signalled, j_req, j_ist_prepared, j_ir, j_send,
                   j_slots, j_closed, j_last_st_type, j_gcache, j_first,
                   cb_pc, cb_args, cb_ret,
                   j_fail, j_reqs, cb_hist>>
    /\ j_st' = MarkerReset(j_st)
    /\ j_ret' = 0
    /\ j_mutex' = "free"
    /\ j_pc' = "done"

\* sst_received up to the lock: the application calls it once the request
\* for a snapshot has gone out
CB_Enter ==
    /\ cb_pc = "idle"
    /\ j_send.sent /\ Unsafe(j_in.sst)
    /\ j_pc # "aborted"
    /\ UNCHANGED <<cvars, ivars, dvars, evars, gvars, j_pc, j_in, j_state, j_state_uuid,
                   j_apply, j_commit, j_sst_uuid, j_sst_seqno, j_mutex,
                   j_signalled, j_st, j_req, j_ist_prepared, j_ir, j_send,
                   j_slots, j_ret, j_closed, j_last_st_type, j_gcache,
                   j_first, cb_ret,
                   j_fail, j_reqs>>
    /\ \E a \in CallbackArgs :
          /\ cb_args' = a
          /\ j_sst_state' = SstStateOnEntry(a.rcode, j_sst_state)
    /\ cb_pc' = "lock"
    /\ cb_hist' = [cb_hist EXCEPT !.calls = @ + 1]

\* a callback that goes on without taking the mutex
MutexOfCallback_NotTaken(m) == m

\* sst_mutex_ once gu::Lock lock(sst_mutex_) of sst_received has it
MutexOfCallback(m) == "callback"

\* gu::Lock lock(sst_mutex_) of sst_received
CB_Lock ==
    /\ cb_pc = "lock"
    /\ j_mutex = "free"
    /\ j_pc # "aborted"
    /\ UNCHANGED <<cvars, ivars, dvars, evars, gvars, j_pc, j_in, j_state, j_state_uuid,
                   j_apply, j_commit, j_sst_state, j_sst_uuid, j_sst_seqno,
                   j_signalled, j_st, j_req, j_ist_prepared, j_ir, j_send,
                   j_slots, j_ret, j_closed, j_last_st_type, j_gcache,
                   j_first, cb_args, cb_ret,
                   j_fail, j_reqs, cb_hist>>
    /\ j_mutex' = MutexOfCallback(j_mutex)
    /\ cb_pc' = "store"

\* sst_uuid_ = state_id.uuid
CB_Store ==
    /\ cb_pc = "store"
    /\ j_pc # "aborted"
    /\ UNCHANGED <<cvars, ivars, dvars, evars, gvars, j_pc, j_in, j_state, j_state_uuid,
                   j_apply, j_commit, j_sst_state, j_sst_seqno, j_mutex,
                   j_signalled, j_st, j_req, j_ist_prepared, j_ir, j_send,
                   j_slots, j_ret, j_closed, j_last_st_type, j_gcache,
                   j_first, cb_args, cb_ret, j_fail, j_reqs>>
    /\ j_sst_uuid' = cb_args.uuid
    /\ cb_hist' = [cb_hist EXCEPT !.uuid_by = cb_hist.calls]
    /\ cb_pc' = "store_seqno"

\* sst_seqno_ = rcode ? WSREP_SEQNO_UNDEFINED : state_id.seqno;
\* sst_cond_.signal(): the signal wakes a joiner that waits and is lost when
\* none does
CB_StoreSeqno ==
    /\ cb_pc = "store_seqno"
    /\ j_pc # "aborted"
    /\ UNCHANGED <<cvars, ivars, dvars, evars, gvars, j_pc, j_in, j_state, j_state_uuid,
                   j_apply, j_commit, j_sst_state, j_sst_uuid, j_mutex, j_st,
                   j_req, j_ist_prepared, j_ir, j_send, j_slots, j_ret,
                   j_closed, j_last_st_type, j_gcache, j_first, cb_args,
                   cb_ret, j_fail, j_reqs>>
    /\ j_sst_seqno' = IF cb_args.rcode # 0 THEN WSREP_SEQNO_UNDEFINED ELSE cb_args.seqno
    /\ cb_hist' = [cb_hist EXCEPT !.seqno_by = cb_hist.calls]
    /\ j_signalled' = (j_pc = "waiting")
    /\ cb_pc' = "check"

SstReceivedStatus_AlwaysOk(state) == "WSREP_OK"

\* the value sst_received returns for the state it reads after the signal
SstReceivedStatus(state) ==
    IF state = "S_JOINING" \/ state = "S_CONNECTED"
    THEN "WSREP_OK" ELSE "WSREP_CONN_FAIL"

\* the state check of sst_received and its return, which releases sst_mutex_
CB_Check ==
    /\ cb_pc = "check"
    /\ j_pc # "aborted"
    /\ UNCHANGED <<cvars, ivars, dvars, evars, gvars, j_pc, j_in, j_state, j_state_uuid,
                   j_apply, j_commit, j_sst_state, j_sst_uuid, j_sst_seqno,
                   j_signalled, j_st, j_req, j_ist_prepared, j_ir, j_send,
                   j_slots, j_ret, j_closed, j_last_st_type, j_gcache,
                   j_first, cb_args,
                   j_fail, j_reqs, cb_hist>>
    /\ cb_ret' = SstReceivedStatus(j_state)
    /\ j_mutex' = IF j_mutex = "callback" THEN "free" ELSE j_mutex
    /\ cb_pc' = "done"

\* another thread starts closing the connection while the joiner is at work
EnvClose ==
    /\ j_pc \notin {"idle", "aborted", "done"}
    /\ j_state \in {"S_CONNECTED", "S_JOINING"}
    /\ UNCHANGED <<cvars, ivars, dvars, evars, gvars, j_pc, j_in, j_state_uuid, j_apply,
                   j_commit, j_sst_state, j_sst_uuid, j_sst_seqno, j_mutex,
                   j_signalled, j_st, j_req, j_ist_prepared, j_ir, j_send,
                   j_slots, j_ret, j_closed, j_last_st_type, j_gcache,
                   j_first, cb_pc, cb_args, cb_ret,
                   j_fail, j_reqs, cb_hist>>
    /\ j_state' = "S_CLOSING"

JoinerNext ==
    \/ J_Prepare \/ J_Lock \/ J_MarkUnsafe \/ J_Send \/ J_SendEnd \/ J_AfterSend
    \/ J_Await \/ J_Wake \/ J_Result \/ J_Clear \/ J_IstCheck \/ J_Recv
    \/ J_IstEnd \/ J_Drain \/ J_Final \/ CB_Enter \/ CB_Lock \/ CB_Store
    \/ CB_StoreSeqno \/ CB_Check \/ EnvClose

SpecJoiner == JoinerInit /\ [][JoinerNext]_vars

\* invocations of request_state_transfer by one caller
MaxCalls == 2

\* the connection the coordinator serves is up: not closing, not closed
ConnectionUp(state, closed) ==
    state \in {"S_CONNECTED", "S_JOINING"} /\ closed = 0

\* a caller that invokes again while the invocation before it still waits
MayInvoke_WhileWaiting(pc, state, closed) ==
    pc \in {"done", "waiting"} /\ ConnectionUp(state, closed)

\* the caller invokes request_state_transfer from one thread: the next
\* invocation begins after the one before it has returned, on a connection
\* that is up
MayInvoke(pc, state, closed) == pc = "done" /\ ConnectionUp(state, closed)

\* a later view with a state gap: request_state_transfer is invoked again
J_Again ==
    /\ MayInvoke(j_pc, j_state, j_closed)
    /\ j_reqs.calls < MaxCalls
    /\ UNCHANGED <<cvars, ivars, dvars, evars, gvars>>
    /\ j_reqs' = [j_reqs EXCEPT !.calls = @ + 1]
    /\ j_pc' = "prepare"
    /\ \E in \in JoinerInputs :
          /\ j_in' = in
          /\ j_state_uuid' = in.state_uuid
          /\ j_apply' = in.local_seqno /\ j_commit' = in.local_seqno
          /\ j_st' \in { [uuid |-> in.state_uuid, seqno |-> sq, safe |-> TRUE,
                          corrupt |-> FALSE] :
                            sq \in {WSREP_SEQNO_UNDEFINED, in.local_seqno} }
    /\ j_state' = "S_CONNECTED"
    /\ j_sst_state' = "SST_NONE" /\ j_sst_uuid' = WSREP_UUID_UNDEFINED
    /\ j_sst_seqno' = WSREP_SEQNO_UNDEFINED
    /\ j_mutex' = "free" /\ j_signalled' = FALSE
    /\ j_req' = NoRequest /\ j_ist_prepared' = FALSE
    /\ j_ir' = NoReceiver /\ j_send' = NoSend
    /\ j_slots' = [cancelled |-> 0, blocked |-> 0]
    /\ j_ret' = 0 /\ j_closed' = 0 /\ j_last_st_type' = "ST_TYPE_NONE"
    /\ j_gcache' = << >> /\ j_first' = TRUE /\ j_fail' = ""
    /\ cb_pc' = "idle" /\ cb_args' = NoCallback /\ cb_ret' = ""
    /\ cb_hist' = NoCalls

\* the joiner invoked more than once
SpecCalls == JoinerInit /\ [][JoinerNext \/ J_Again]_vars

\* calls of sst_received during one invocation of request_state_transfer
MaxCallbacks == 2

\* the application calls sst_received once more
CB_Again ==
    /\ cb_pc = "done"
    /\ cb_hist.calls < MaxCallbacks
    /\ cb_pc' = "idle"
    /\ UNCHANGED <<cvars, ivars, dvars, evars, gvars, j_pc, j_in, j_state, j_state_uuid,
                   j_apply, j_commit, j_sst_state, j_sst_uuid, j_sst_seqno,
                   j_mutex, j_signalled, j_st, j_req, j_ist_prepared, j_ir,
                   j_send, j_slots, j_ret, j_closed, j_last_st_type,
                   j_gcache, j_first, j_fail, j_reqs, cb_args, cb_ret,
                   cb_hist>>

\* the joiner with an application that calls sst_received more than once
SpecCallbacks == JoinerInit /\ [][JoinerNext \/ CB_Again]_vars

\* one transfer seen from either end: a donor at work on a request, or a
\* joiner asking for one
SpecTransfer == (DonorInit \/ JoinerInit) /\ [][DonorNext \/ JoinerNext]_vars

-----------------------------------------------------------------------------
(* Properties of the codec, stated on the bytes alone *)

\* the bytes start with the five characters "STRv1"
StartsWithMagic(b) ==
    Len(b) >= 5 /\ b[1] = 83 /\ b[2] = 84 /\ b[3] = 82 /\ b[4] = 118 /\ b[5] = 49

\* the 32 bit big-endian number at bytes at+1 .. at+4
LenAt(b, at) == ((b[at + 1] * 256 + b[at + 2]) * 256 + b[at + 3]) * 256 + b[at + 4]

\* header, length, SST bytes, length, IST bytes, and nothing else
WellFormedV1(b) ==
    /\ Len(b) >= 14
    /\ LET l1 == LenAt(b, 6) IN
         /\ 14 + l1 <= Len(b)
         /\ 14 + l1 + LenAt(b, 10 + l1) = Len(b)

Decoded == c_pc = "decoded"

\* C6: under protocol 1 or 2, decoding what the encoder wrote for (sst, ist)
\* gives back the SST bytes and length and the IST bytes and length.
C6_RoundTrip ==
    (Decoded /\ c_src = "encoder" /\ c_ver \in {1, 2}) =>
        /\ c_sr.kind = "v1"
        /\ sst_req(c_sr) = c_sst /\ sst_len(c_sr) = Len(c_sst)
        /\ ist_req(c_sr) = c_ist /\ ist_len(c_sr) = Len(c_ist)

C6_Witness ==
    /\ Decoded /\ c_src = "encoder" /\ c_ver = 2
    /\ Len(c_sst) = 2 /\ Len(c_ist) = 1
    /\ sst_req(c_sr) = c_sst /\ ist_req(c_sr) = c_ist

\* a v1 envelope whose two length fields are both zero
BothZero(b) ==
    StartsWithMagic(b) /\ Len(b) >= 14 /\ LenAt(b, 6) = 0 /\ LenAt(b, 10) = 0

\* C7 as stated: decoding a v1 envelope whose SST and IST lengths are both
\* zero fails as malformed.
C7_Original ==
    (Decoded /\ BothZero(c_buf.buf)) => c_sr.kind = EINVAL

\* C7 as amended: a v1 envelope whose SST and IST lengths are both zero is
\* accepted, with no SST and no IST bytes, when it is exactly the 14 bytes of
\* header and length fields; it is malformed only when bytes follow them.
C7_BothZeroAccepted ==
    (Decoded /\ BothZero(c_buf.buf)) =>
        /\ (c_sr.kind = "v1") <=> (Len(c_buf.buf) = 14)
        /\ (c_sr.kind # "v1") => c_sr.kind = EINVAL
        /\ (c_sr.kind = "v1") =>
              /\ sst_len(c_sr) = 0 /\ sst_req(c_sr) = << >>
              /\ ist_len(c_sr) = 0 /\ ist_req(c_sr) = << >>

C7_Witness ==
    /\ Decoded /\ c_src = "encoder" /\ c_ver = 1
    /\ c_sst = << >> /\ c_ist = << >>
    /\ BothZero(c_buf.buf) /\ c_sr.kind = "v1"

\* C8 as stated: every buffer that starts with the magic and is shorter than
\* magic + 1 + 8 bytes, and every v1 buffer whose first length does not fit or
\* whose fields do not consume the buffer exactly, fails as malformed.
C8_Original ==
    (Decoded /\ StartsWithMagic(c_buf.buf) /\ ~WellFormedV1(c_buf.buf)) =>
        c_sr.kind = EINVAL

\* C8 as amended: every buffer of more than five bytes that starts with the
\* magic and is shorter than 14 bytes, or whose first length does not fit, or
\* whose fields do not consume it exactly, fails as malformed; the buffer that
\* is exactly the five magic bytes is a v0 request.
C8_MalformedRejected ==
    /\ (Decoded /\ StartsWithMagic(c_buf.buf) /\ Len(c_buf.buf) > 5
                /\ ~WellFormedV1(c_buf.buf)) => c_sr.kind = EINVAL
    /\ (Decoded /\ StartsWithMagic(c_buf.buf) /\ Len(c_buf.buf) = 5) =>
            (c_sr.kind = "v0" /\ sst_req(c_sr) = c_buf.buf)

C8_Witness ==
    /\ Decoded /\ StartsWithMagic(c_buf.buf)
    /\ Len(c_buf.buf) = 16 /\ LenAt(c_buf.buf, 6) = 1 /\ LenAt(c_buf.buf, 11) = 0
    /\ c_sr.kind = EINVAL

\* C9 as stated: a payload is v1 only when it starts with "STRv1" and a NUL;
\* every other payload is v0, the whole payload its SST request, no IST.
C9_Original ==
    (Decoded /\ ~(StartsWithMagic(c_buf.buf) /\ Len(c_buf.buf) >= 6 /\ c_buf.buf[6] = 0)) =>
        /\ c_sr.kind = "v0"
        /\ sst_req(c_sr) = c_buf.buf /\ sst_len(c_sr) = Len(c_buf.buf)
        /\ ist_len(c_sr) = 0 /\ ist_req(c_sr) = << >>

\* C9 as amended: a payload is handed to the v1 decoder exactly when it is
\* longer than five bytes and starts with "STRv1", whatever its sixth byte;
\* every other payload is v0, the whole payload its SST request, no IST.
C9_VersionByFiveBytes ==
    Decoded =>
        /\ (c_sr.kind = "v0") <=> ~(StartsWithMagic(c_buf.buf) /\ Len(c_buf.buf) > 5)
        /\ (c_sr.kind = "v0") =>
              /\ sst_req(c_sr) = c_buf.buf /\ sst_len(c_sr) = Len(c_buf.buf)
              /\ ist_len(c_sr) = 0 /\ ist_req(c_sr) = << >>

C9_Witness ==
    /\ Decoded /\ StartsWithMagic(c_buf.buf) /\ Len(c_buf.buf) = 16
    /\ c_buf.buf[6] = 88 /\ c_sr.kind = "v1"
    /\ sst_len(c_sr) = 1 /\ ist_len(c_sr) = 1

-----------------------------------------------------------------------------
(* Properties of the IST descriptor *)

\* C10: the descriptor read back from the request has the uuid, last_applied,
\* group_seqno and peer of the descriptor the joiner wrote.
C10_RoundTrip ==
    (i_pc = "parsed") =>
        /\ i_istr.uuid = i_desc.uuid
        /\ i_istr.last_applied = i_desc.last_applied
        /\ i_istr.group_seqno = i_desc.group_seqno
        /\ i_istr.peer = i_desc.peer

-----------------------------------------------------------------------------
(* Properties of the donor *)

DonorBypassFailed ==
    \E k \in 1..Len(d_sst_calls) : d_sst_calls[k].bypass /\ ~d_sst_calls[k].ok

DonorRunThrew == d_rcode = 0 - ENOMEM

\* C1: once seqno_lock has succeeded the cache lock is released exactly once:
\* by the guard when the bypass SST callback failed or starting the sender
\* threw, by the sender (the guard then does nothing) when the sender was
\* started; when seqno_lock throws NotFound, or is never called, nothing is
\* unlocked.
C1_LockReleasedOnce ==
    /\ d_gcache.locks <= 1
    /\ d_gcache.unlocks <= d_gcache.locks
    /\ d_gcache.unlocks = d_guard.unlocks + (IF d_sender = "done" THEN 1 ELSE 0)
    /\ (d_gcache.locks = 1 /\ d_pc \in {"out", "join", "done"}) =>
          /\ (d_sender = "none") <=> (DonorBypassFailed \/ DonorRunThrew)
          /\ (d_sender = "none") => (d_guard.unlocks = 1 /\ d_gcache.unlocks = 1)
          /\ (d_sender # "none") => d_guard.unlocks = 0
    /\ (d_gcache.locks = 1 /\ d_pc = "done" /\ d_sender # "running") =>
          d_gcache.unlocks = 1

C1_Witness ==
    /\ d_pc = "done" /\ d_sender = "done"
    /\ d_gcache = [locks |-> 1, unlocks |-> 1]
    /\ d_guard.unlocks = 0
    /\ Len(d_sst_calls) = 1 /\ d_sst_calls[1].bypass

-----------------------------------------------------------------------------
(* Properties of the joiner *)

\* the steps of the thread that runs request_state_transfer
JoinerThread ==
    \/ J_Prepare \/ J_Lock \/ J_MarkUnsafe \/ J_Send \/ J_SendEnd \/ J_AfterSend
    \/ J_Await \/ J_Wake \/ J_Result \/ J_Clear \/ J_IstCheck \/ J_Recv
    \/ J_IstEnd \/ J_Drain \/ J_Final

\* both threads are scheduled: a step that stays possible is taken
SpecJoinerLive ==
    /\ SpecJoiner
    /\ WF_vars(JoinerThread)
    /\ WF_vars(CB_Lock \/ CB_Store \/ CB_StoreSeqno \/ CB_Check)

\* the SST payload is neither empty nor the "trivial" sentinel
NonTrivialSst == j_in.sst # << >> /\ j_in.sst # TRIVIAL_SST \o <<0>>

\* send_state_request has returned successfully: the request was made
RequestMade ==
    j_send.ret >= 0 /\ j_pc \in {"after_send", "await", "waiting", "result",
                                 "clear", "ist_check", "recv", "ist_end",
                                 "drain", "final", "done", "aborted"}

\* sst_received was called with rcode = -ECANCELED for the request made
CancelDelivered ==
    cb_pc # "idle" /\ cb_args.rcode = 0 - ECANCELED /\ NonTrivialSst /\ RequestMade

C2_CancelSafe ==
    CancelDelivered =>
        /\ j_pc \in {"after_send", "await", "waiting", "result", "done"}
        /\ j_last_st_type # "ST_TYPE_IST"
        /\ j_state_uuid = j_in.state_uuid
        /\ j_apply = j_in.local_seqno /\ j_commit = j_in.local_seqno
        /\ j_ir.phase \in {"none", "prepared"}
        /\ (cb_pc = "done" /\ j_pc = "waiting") => j_signalled
        /\ (j_pc = "done") =>
              j_ret = 0 - ECANCELED /\ ~j_st.safe /\ j_closed = 1

\* C2: once sst_received has been called with -ECANCELED for a non-trivial
\* request that send_state_request made, request_state_transfer installs no
\* position, runs no IST, and under every interleaving of the two threads
\* returns -ECANCELED with the marker unsafe and close() called once.
C2_CancelReturns ==
    /\ [] C2_CancelSafe
    /\ CancelDelivered ~> (j_pc = "done" /\ j_ret = 0 - ECANCELED
                           /\ ~j_st.safe /\ j_closed = 1)

C2_Witness ==
    /\ CancelDelivered /\ cb_pc = "done" /\ cb_ret = "WSREP_OK"
    /\ j_pc = "done" /\ j_ret = 0 - ECANCELED /\ j_closed = 1 /\ ~j_st.safe

\* C3: before the first send attempt the marker is unsafe exactly when the
\* SST payload is non-empty and not "trivial", and from there until the SST
\* result has been taken up, the wait on sst_cond_ included, it stays unsafe.
C3_UnsafeWhileWaiting ==
    /\ (j_pc = "send" /\ j_send.tries = 0) => (~j_st.safe <=> NonTrivialSst)
    /\ (j_pc = "waiting") => ~j_st.safe
    /\ (NonTrivialSst /\ j_pc \in {"send", "send_end", "await", "waiting", "result"})
          => ~j_st.safe
    /\ (NonTrivialSst /\ j_pc = "after_send" /\ j_send.ret >= 0) => ~j_st.safe

C3_Witness ==
    /\ j_pc = "waiting" /\ NonTrivialSst /\ ~j_st.safe
    /\ cb_pc = "lock" /\ j_state = "S_CLOSING"

\* C4: when request_state_transfer, started with a safe marker, returns 0,
\* the marker holds seqno -1 and its safe flag is set.
C4_ReturnZeroMarker ==
    (j_pc = "done" /\ j_ret = 0) =>
        (j_st.seqno = WSREP_SEQNO_UNDEFINED /\ j_st.safe)

C4_Witness ==
    /\ j_pc = "done" /\ j_ret = 0 /\ NonTrivialSst /\ cb_pc = "done"
    /\ j_last_st_type = "ST_TYPE_IST"
    /\ j_st.seqno = WSREP_SEQNO_UNDEFINED /\ j_st.safe

\* C5 as stated: every run that returns 0 ends at or beyond group_seqno.
C5_Original ==
    (j_pc = "done" /\ j_ret = 0) => j_apply >= j_in.group_seqno

\* the position the transfer delivered: the last seqno of the IST receiver
\* when IST ran, else the seqno of the SST when one was installed, else the
\* position the joiner had
Delivered ==
    IF j_last_st_type = "ST_TYPE_IST" THEN ReceiverLast(j_ir)
    ELSE IF j_last_st_type = "ST_TYPE_SST" THEN j_sst_seqno
    ELSE j_in.local_seqno

\* C5: a run that returns 0 ends at or beyond group_seqno exactly when the
\* transfer delivered that much: the SST result it installed, or the last
\* write-set of an IST that ran, is at or beyond group_seqno.
C5_FinalSeqnoIsDelivered ==
    (j_pc = "done" /\ j_ret = 0) =>
        /\ j_apply >= Delivered
        /\ (j_apply >= j_in.group_seqno) <=> (Delivered >= j_in.group_seqno)

C5_Witness ==
    /\ j_pc = "done" /\ j_ret = 0 /\ cb_pc = "done"
    /\ j_last_st_type = "ST_TYPE_IST" /\ j_ir.cur > j_ir.first
    /\ j_apply = j_in.group_seqno

-----------------------------------------------------------------------------
(* Properties of the donor: descriptors with wrong separators *)

\* the request read by the donor carries the descriptor whose separators
\* are 'x', 'x', 'x' instead of ':', '-', '|'
BadSeparatorsRead ==
    /\ d_streq.kind = "v1"
    /\ ist_req(d_streq) = BadSepBuffer(IST_request(DonorPeer, UUID_A, 9, MaxSeqno))

\* C11: a descriptor with a wrong character at a separator position fails to
\* parse and is never used to lock the cache or to start an IST sender.
C11_Original ==
    BadSeparatorsRead =>
        /\ d_gcache.locks = 0
        /\ d_ist_runs = << >>
        /\ (d_pc \notin {"start", "entered", "drained"} /\ ~skip_state_transfer(d_streq))
              => (d_istr.fail \/ d_istr.threw)

-----------------------------------------------------------------------------
(* Properties of the joiner: the descriptor it emits *)

\* the descriptor carried by the request the joiner built
Emitted == get_ist_request(j_req)

\* C12: a descriptor the joiner emits has the group's uuid and
\* 0 <= last_applied < group_seqno; with a local uuid other than the group's
\* or an undefined local seqno no IST listener is prepared and the request
\* carries no descriptor.
C12_DescriptorWellFormed ==
    /\ (j_req.kind = "v1" /\ ist_len(j_req) > 0) =>
          /\ ~Emitted.fail /\ ~Emitted.threw
          /\ Emitted.uuid = j_in.group_uuid
          /\ Emitted.last_applied >= 0
          /\ Emitted.last_applied < Emitted.group_seqno
          /\ Emitted.last_applied = j_in.local_seqno
          /\ Emitted.group_seqno = j_in.group_seqno
    /\ (j_pc \notin {"idle", "prepare"}
        /\ (j_in.state_uuid # j_in.group_uuid
            \/ j_in.local_seqno = WSREP_SEQNO_UNDEFINED)) =>
          /\ j_ir.phase = "none"
          /\ ~j_ist_prepared
          /\ ist_len(j_req) = 0

C12_Witness ==
    /\ j_pc = "lock" /\ j_req.kind = "v1" /\ ist_len(j_req) > 0 /\ j_ist_prepared
    /\ Emitted.last_applied = GroupSeqno - 2 /\ Emitted.group_seqno = GroupSeqno

-----------------------------------------------------------------------------
(* Properties of the donor: the cache does not hold the first seqno *)

\* seqno_lock threw NotFound: control left the guard's block with the cache
\* never locked
DonorNotFound == d_after # "" /\ d_gcache.locks = 0

\* the one call of the SST callback the fallback makes
FallbackCall ==
    /\ Len(d_sst_calls) = 1
    /\ ~d_sst_calls[1].bypass
    /\ d_sst_calls[1].uuid = d_in.state_uuid
    /\ d_sst_calls[1].seqno = d_in.donor_seq

\* C13 as stated: after NotFound with an SST request the callback is called
\* once, non-bypass, with (state uuid, donor_seq), no sender is started, no
\* cache lock is held and the donor itself never announces the join.
C13_Original ==
    (DonorNotFound /\ sst_len(d_streq) # 0) =>
        /\ d_ist_runs = << >> /\ d_sender = "none"
        /\ d_gcache = [locks |-> 0, unlocks |-> 0]
        /\ Len(d_sst_calls) <= 1
        /\ (d_pc \in {"out", "join", "done"}) => FallbackCall
        /\ d_joins = << >>

\* C13: after NotFound with an SST request the callback is called once,
\* non-bypass, with (state uuid, donor_seq), no sender is started and no
\* cache lock is held; the join is left to the completion callback when the
\* SST callback accepted the request, and announced at once with -ECANCELED
\* when it returned an error.
C13_FallbackToSst ==
    (DonorNotFound /\ sst_len(d_streq) # 0) =>
        /\ d_ist_runs = << >> /\ d_sender = "none"
        /\ d_gcache = [locks |-> 0, unlocks |-> 0]
        /\ Len(d_sst_calls) <= 1
        /\ (d_pc \in {"out", "join", "done"}) =>
              /\ FallbackCall
              /\ d_join_now = FALSE
              /\ d_rcode = IF d_sst_calls[1].ok THEN d_in.donor_seq ELSE 0 - ECANCELED
        /\ (d_pc = "done") =>
              /\ d_local = "left"
              /\ d_joins = IF d_sst_calls[1].ok THEN << >> ELSE << 0 - ECANCELED >>
        /\ (d_pc # "done") => d_joins = << >>

C13_Witness ==
    /\ DonorNotFound /\ sst_len(d_streq) # 0 /\ d_pc = "done"
    /\ FallbackCall /\ d_sst_calls[1].ok /\ d_joins = << >> /\ d_local = "left"

\* C14: after NotFound without an SST request the donor calls neither the
\* SST callback nor the IST sender, leaves the local monitor and announces
\* the join with -ENODATA.
C14_NoDataJoin ==
    (DonorNotFound /\ sst_len(d_streq) = 0) =>
        /\ d_sst_calls = << >> /\ d_ist_runs = << >> /\ d_sender = "none"
        /\ d_gcache = [locks |-> 0, unlocks |-> 0]
        /\ d_rcode = 0 - ENODATA
        /\ d_pc \in {"scope_exit", "out", "join", "done"}
        /\ (d_pc \in {"join", "done"}) => d_local = "left"
        /\ (d_pc = "done") => d_joins = << 0 - ENODATA >>
        /\ (d_pc # "done") => d_joins = << >>

C14_Witness ==
    /\ DonorNotFound /\ sst_len(d_streq) = 0 /\ d_pc = "done"
    /\ d_local = "left" /\ d_joins = << 0 - ENODATA >> /\ d_sst_calls = << >>

-----------------------------------------------------------------------------
(* Properties of the joiner: failures *)

\* C15: when the group layer answers the request with -ENODATA the joiner
\* aborts at once: it makes no further attempt, never shifts to S_JOINING,
\* never returns, and at the abort the marker's safe flag is set.
C15_NoDataAbort ==
    (j_send.ret = 0 - ENODATA) =>
        /\ j_pc = "aborted"
        /\ j_st.safe
        /\ j_state # "S_JOINING"
        /\ j_gcache = << >>
        /\ j_sst_state = "SST_WAIT" \/ j_sst_state = "SST_CANCELED"

C15_Witness ==
    /\ j_send.ret = 0 - ENODATA /\ j_pc = "aborted" /\ j_send.tries = MaxTries
    /\ NonTrivialSst /\ j_st.safe

-----------------------------------------------------------------------------
(* Properties of the joiner: what sst_received returns *)

StoredResult ==
    /\ j_sst_uuid = cb_args.uuid
    /\ j_sst_seqno = IF cb_args.rcode # 0 THEN WSREP_SEQNO_UNDEFINED
                                          ELSE cb_args.seqno

-----------------------------------------------------------------------------
(* Properties of the joiner: a write-set of IST that cannot be applied *)

\* C17: when applying a write-set received by IST fails the marker store is
\* marked corrupt and the process aborts: the write-set that failed and the
\* ones after it are never applied and request_state_transfer does not return
C17_ApplyFailureCorrupt ==
    (j_fail = "apply") =>
        /\ j_st.corrupt /\ ~j_st.safe
        /\ j_pc = "aborted"
        /\ j_apply < j_ir.cur
        /\ j_last_st_type # "ST_TYPE_IST"

C17_Witness ==
    /\ j_fail = "apply" /\ j_st.corrupt /\ j_pc = "aborted"
    /\ j_apply = j_ir.cur - 1 /\ j_apply >= j_ir.first /\ j_ir.cur <= j_ir.last

-----------------------------------------------------------------------------
(* Properties of the joiner: a snapshot that failed *)

\* sst_received has reported a failure other than a cancellation
SnapshotFailed ==
    /\ cb_pc = "done" /\ NonTrivialSst
    /\ cb_args.rcode < 0 /\ cb_args.rcode # 0 - ECANCELED

\* C18: after sst_received reported a snapshot failure (negative rcode other
\* than -ECANCELED) for a non-trivial SST request, the joiner has closed the
\* connection, has installed no position and reported no success, and the
\* marker store is left unsafe
C18_Original ==
    (SnapshotFailed /\ j_pc \in {"done", "aborted"}) =>
        /\ j_closed > 0
        /\ ~(j_pc = "done" /\ j_ret = 0)
        /\ j_last_st_type = "ST_TYPE_NONE"
        /\ ~j_st.safe

-----------------------------------------------------------------------------
(* Properties of both ends: the "trivial" SST request *)

\* the joiner was called with the sentinel
TrivialSst == j_in.sst = TRIVIAL_SST \o <<0>>

\* the donor has read a request whose SST part is the sentinel
DonorTrivial ==
    /\ d_streq.kind \in {"v0", "v1"}
    /\ sst_is_trivial(sst_req(d_streq))

\* send_state_request gave up for good
FatalSendFailure ==
    j_pc = "aborted" /\ j_send.ret < 0 /\ j_send.ret # 0 - ENODATA

-----------------------------------------------------------------------------
(* Properties of the donor: requests that do not decode *)

\* the decoder rejected the envelope, or the scan of its descriptor failed
DecodeFailed ==
    \/ d_streq.kind = EINVAL
    \/ /\ d_streq.kind = "v1"
       /\ d_istr.fail \/ d_istr.threw

\* C20: when the envelope or its IST descriptor fails to decode the donor
\* treats the request as a skipped transfer: neither the SST callback nor an
\* IST sender is invoked, no exception leaves process_state_req, and the
\* action ends with the local-order monitor left
C20_Original ==
    DecodeFailed =>
        /\ d_sst_calls = << >> /\ d_ist_runs = << >>
        /\ d_pc # "threw"
        /\ d_pc = "done" => d_local = "out"

-----------------------------------------------------------------------------
(* Properties of the donor: who announces the join *)

\* process_state_req has announced the join itself
DonorJoined == d_joins # << >>

\* C21 as stated: process_state_req announces the join exactly when neither
\* an SST callback nor an IST sender is in flight for the request, or the
\* result is negative
C21_Original ==
    d_pc = "done" =>
        (DonorJoined <=> \/ d_sst_calls = << >> /\ d_ist_runs = << >>
                         \/ d_rcode < 0)

\* C21: process_state_req announces the join, once, exactly when it invoked
\* no SST callback for the request or the result is negative, an IST sender
\* started without an SST payload deferring nothing; the status is the
\* negative result, donor_seq otherwise; before its end it announces nothing
C21_JoinUnlessSstCalled ==
    /\ Len(d_joins) <= 1
    /\ DonorJoined => d_pc = "done"
    /\ d_pc = "done" =>
          /\ DonorJoined <=> (d_sst_calls = << >> \/ d_rcode < 0)
          /\ DonorJoined =>
                d_joins[1] = IF d_rcode < 0 THEN d_rcode ELSE d_in.donor_seq

C21_Witness ==
    /\ d_pc = "done" /\ d_sst_calls = << >> /\ d_ist_runs # << >>
    /\ d_rcode >= 0 /\ d_joins = <<d_in.donor_seq>>

-----------------------------------------------------------------------------
(* Properties of the joiner: requests outstanding *)

-----------------------------------------------------------------------------
(* Properties of the EVS sequence numbers *)

-----------------------------------------------------------------------------
(* Properties of the joiner: the result it reads *)

\* the joiner has read sst_uuid_ and sst_seqno_ after its wait
ResultRead == NonTrivialSst /\ cb_hist.read # << >>

-----------------------------------------------------------------------------
(* Properties of the SST mutex *)

\* a step of sst_received, as opposed to a step of the joiner thread
CallbackStep == cb_pc' # cb_pc

\* the step writes sst_uuid_ or sst_seqno_
WritesSstResult == j_sst_uuid' # j_sst_uuid \/ j_sst_seqno' # j_sst_seqno

\* the step writes sst_state_
WritesSstState == j_sst_state' # j_sst_state

\* the thread that takes the step holds sst_mutex_
HoldsSstMutex == IF CallbackStep THEN j_mutex = "callback" ELSE j_mutex = "joiner"

\* C25: every write of sst_uuid_, sst_seqno_ and sst_state_ by sst_received,
\* send_state_request and request_state_transfer is made by a thread that
\* holds sst_mutex_
C25_MutexHeld == [][(WritesSstResult \/ WritesSstState) => HoldsSstMutex]_vars

\* the part of C25 the code keeps: the result pair is written under the mutex,
\* and so is sst_state_ by the joiner thread
MutexHeldButCancel ==
    [][(WritesSstResult \/ (WritesSstState /\ ~CallbackStep)) => HoldsSstMutex]_vars

\* sst_received has written SST_CANCELED while the joiner thread holds the
\* mutex
CancelWrittenUnlocked ==
    /\ cb_pc = "lock" /\ cb_args.rcode = -ECANCELED
    /\ j_sst_state = "SST_CANCELED" /\ j_mutex = "joiner"

-----------------------------------------------------------------------------
(* Properties of the donor: what precedes the transfer *)

\* the monitors as process_state_req must have left them before a transfer
DrainedThroughDonorSeq(dr) ==
    /\ dr.apply = d_in.donor_seq
    /\ d_in.co_bypass \/ dr.commit = d_in.donor_seq

\* C26: on the donor the SST callback and the IST sender are started only
\* after process_state_req entered the local-order monitor and drained the
\* apply monitor, and the commit monitor unless commit order is bypassed,
\* through donor_seq
C26_AdmittedAndDrained ==
    /\ \A i \in DOMAIN d_sst_calls :
          d_sst_calls[i].in_local /\ DrainedThroughDonorSeq(d_sst_calls[i].drained)
    /\ \A i \in DOMAIN d_ist_runs :
          d_ist_runs[i].in_local /\ DrainedThroughDonorSeq(d_ist_runs[i].drained)

C26_Witness ==
    /\ ~d_in.co_bypass
    /\ Len(d_sst_calls) = 1 /\ d_sst_calls[1].bypass
    /\ Len(d_ist_runs) = 1 /\ d_ist_runs[1].drained.commit = d_in.donor_seq


\* C27: the donor does not hold the local-order monitor while the non-bypass
\* snapshot callback runs: the monitor was released before the callback
C27_MonitorReleased ==
    \A i \in DOMAIN d_sst_calls :
        ~d_sst_calls[i].bypass => ~d_sst_calls[i].in_local

\* the non-bypass callback has run and the monitor is still entered
CallbackInsideMonitor ==
    /\ d_pc = "out" /\ d_local = "in"
    /\ Len(d_sst_calls) = 1 /\ ~d_sst_calls[1].bypass /\ d_sst_calls[1].in_local


\* gcache_.seqno_lock succeeded and the envelope carries an SST payload
LockedWithSst == d_gcache.locks = 1 /\ sst_len(d_streq) # 0

\* C28: when the cache lock succeeds and the envelope also carries an SST
\* payload, the donor invokes the SST callback once, in bypass mode and with
\* the GTID (descriptor uuid, last_applied), before it starts the IST sender;
\* it starts the sender only if the callback succeeded, and for the range
\* last_applied + 1 through cc_seqno, not the descriptor's group_seqno
C28_BypassThenSender ==
    /\ (d_pc = "bypass" /\ LockedWithSst) =>
          d_sst_calls = << >> /\ d_ist_runs = << >>
    /\ (d_pc = "run_ist" /\ LockedWithSst) =>
          Len(d_sst_calls) = 1 /\ d_ist_runs = << >>
    /\ (d_pc \in {"scope_exit", "out", "join", "done"} /\ LockedWithSst) =>
        /\ Len(d_sst_calls) = 1
        /\ d_sst_calls[1].bypass
        /\ d_sst_calls[1].uuid = d_istr.uuid
        /\ d_sst_calls[1].seqno = d_istr.last_applied
        /\ Len(d_ist_runs) <= 1
        /\ \A i \in DOMAIN d_ist_runs :
              /\ d_sst_calls[1].ok
              /\ d_ist_runs[i].first = d_istr.last_applied + 1
              /\ d_ist_runs[i].last = d_in.cc_seqno

C28_Witness ==
    /\ d_pc = "done" /\ LockedWithSst
    /\ Len(d_ist_runs) = 1 /\ d_sst_calls[1].ok
    /\ d_in.cc_seqno # d_istr.group_seqno
    /\ d_ist_runs[1].last = d_in.cc_seqno

-----------------------------------------------------------------------------
(* Properties of the donor: a descriptor of another history *)

\* the donor has read an envelope whose descriptor parses and names a uuid
\* other than state_uuid_
OtherHistory ==
    /\ d_streq.kind = "v1"
    /\ ist_len(d_streq) # 0
    /\ LET istr == get_ist_request(d_streq)
       IN  ~istr.threw /\ ~istr.fail /\ istr.uuid # d_in.state_uuid

\* one full SST, not bypassed, for the donor's own position
FullSstOnly ==
    /\ Len(d_sst_calls) = 1
    /\ ~d_sst_calls[1].bypass
    /\ d_sst_calls[1].uuid = d_in.state_uuid
    /\ d_sst_calls[1].seqno = d_in.donor_seq

\* no callback, result -ECANCELED, join announced with -ECANCELED
CanceledJoin ==
    /\ d_sst_calls = << >>
    /\ d_rcode = 0 - ECANCELED
    /\ d_joins = <<0 - ECANCELED>>

\* C29 as stated: with a descriptor of another uuid the donor never locks the
\* cache and never starts an IST sender; it performs a full non-bypass SST
\* when the SST payload is non-empty, and otherwise ends with -ECANCELED and
\* announces join with -ECANCELED
C29_Original ==
    OtherHistory =>
        /\ d_gcache.locks = 0 /\ d_ist_runs = << >>
        /\ d_pc = "done" =>
              IF sst_len(d_streq) # 0 THEN FullSstOnly ELSE CanceledJoin

\* C29, amended: the same, the full SST being performed when the SST payload
\* is non-empty and is not one of the two sentinels that skip the transfer
C29_OtherUuidNoIst ==
    OtherHistory =>
        /\ d_gcache.locks = 0 /\ d_ist_runs = << >>
        /\ (d_pc = "done" /\ ~skip_state_transfer(d_streq)) =>
              IF sst_len(d_streq) # 0 THEN FullSstOnly ELSE CanceledJoin

C29_Witness ==
    /\ OtherHistory /\ d_pc = "done"
    /\ sst_len(d_streq) # 0 /\ FullSstOnly /\ d_sst_calls[1].ok
    /\ d_joins = << >>

\* the sentinel with a descriptor of another uuid: nothing is called
SentinelOtherHistory ==
    /\ OtherHistory /\ d_pc = "done"
    /\ skip_state_transfer(d_streq) /\ sst_len(d_streq) # 0
    /\ d_sst_calls = << >> /\ d_rcode = 0

-----------------------------------------------------------------------------
(* Properties of the joiner: the monitors before IST *)

\* the SST result was installed and no IST write-set was taken in yet
SstInstalledBeforeIst ==
    /\ j_last_st_type = "ST_TYPE_SST"
    /\ \/ j_pc \in {"clear", "ist_check"}
       \/ j_pc = "recv" /\ j_first /\ j_ir.cur = j_ir.first

\* the apply monitor, and the commit monitor unless commit order is bypassed,
\* stand at sst_seqno_
MonitorsAtSstSeqno ==
    /\ j_apply = j_sst_seqno
    /\ j_in.co_bypass \/ j_commit = j_sst_seqno

\* C30: on the joiner, after a successful SST the apply monitor, and the
\* commit monitor unless commit order is bypassed, are set to sst_seqno
\* before the IST receiver is made ready and before any IST write-set is
\* received or applied
C30_MonitorsBeforeIst ==
    /\ SstInstalledBeforeIst => MonitorsAtSstSeqno
    /\ (j_last_st_type = "ST_TYPE_SST" /\ j_pc \in {"clear", "ist_check"}) =>
          j_ir.phase # "ready"

C30_Witness ==
    /\ j_last_st_type = "ST_TYPE_SST" /\ j_pc = "recv" /\ j_first
    /\ j_ir.phase = "ready" /\ ~j_in.co_bypass
    /\ cb_args.rcode = 0 /\ j_sst_seqno = cb_args.seqno
    /\ j_apply = j_sst_seqno /\ j_commit = j_sst_seqno

-----------------------------------------------------------------------------
(* Properties of the joiner: the drain after IST *)

\* the joiner ran recv_IST and is past the drain that follows it
PastIstDrain == j_last_st_type = "ST_TYPE_IST" /\ j_pc \in {"final", "done"}

\* C31: whenever the joiner ran IST reception, request_state_transfer does
\* not return until the apply monitor has been drained through sst_seqno_,
\* which is the last seqno the IST receiver reported when it finished
C31_DrainedBeforeReturn ==
    /\ PastIstDrain =>
          /\ j_ir.phase = "finished"
          /\ j_sst_seqno = ReceiverLast(j_ir)
          /\ j_apply >= j_sst_seqno
    /\ (j_pc = "drain") => j_last_st_type = "ST_TYPE_IST"

C31_Witness ==
    /\ PastIstDrain /\ j_pc = "done" /\ j_ret = 0
    /\ j_ir.cur > j_ir.first
    /\ j_sst_seqno = j_ir.cur - 1 /\ j_apply = j_sst_seqno

\* the drain that never ends: the monitor stands below what the receiver
\* reported
DrainBlocked == j_pc = "drain" /\ j_apply < j_sst_seqno

-----------------------------------------------------------------------------
(* Properties of the joiner: the IST listener at return *)

\* ist_receiver_.prepare() ran for the request
ListenerPrepared == j_ir.phase # "none"

\* the listener was finished once and ist_prepared_ is false
ListenerFinishedOnce ==
    /\ ~j_ist_prepared
    /\ ListenerPrepared => (j_ir.phase = "finished" /\ j_ir.finished = 1)

\* C32: whenever request_state_transfer returns, with any return value, the
\* IST listener prepared for the request has been finished exactly once and
\* ist_prepared_ is false
C32_ListenerFinished == (j_pc = "done") => ListenerFinishedOnce

\* the part of C32 the code keeps: every return but the one after a
\* cancelled SST
ListenerFinishedUnlessCancelled ==
    (j_pc = "done" /\ j_ret # 0 - ECANCELED) => ListenerFinishedOnce

\* request_state_transfer has returned -ECANCELED with the listener prepared
\* and not finished
ListenerLeftBehind ==
    /\ j_pc = "done" /\ j_ret = 0 - ECANCELED /\ j_closed = 1
    /\ j_ist_prepared /\ j_ir.phase = "prepared" /\ j_ir.finished = 0

-----------------------------------------------------------------------------
(* Properties of the joiner: the local-order slots of the send attempts *)

\* send_state_request has returned to request_state_transfer
SendReturned == j_pc \notin {"prepare", "lock", "mark", "send", "send_end", "aborted"}

\* C33: every send attempt that was given a local seqno has its slot of the
\* local-order monitor self-cancelled, once, so that when send_state_request
\* returns no slot it was given is left neither entered nor cancelled
C33_SlotsSelfCancelled ==
    /\ j_slots.blocked = 0
    /\ SendReturned => j_slots.cancelled <= j_send.tries

\* send_state_request returned -EDEADLK on a closing connection and left the
\* slot of its attempt as it was
SlotLeft ==
    /\ j_pc = "done" /\ j_ret = 0 - EDEADLK /\ ~Live(j_state)
    /\ j_slots = [cancelled |-> 0, blocked |-> 1]

\* the attempts that were given a seqno the monitor had room for are all
\* self-cancelled, failed or not
SlotCancelledWithRoom ==
    /\ j_pc = "done" /\ j_ret = 0 - EPERM
    /\ j_slots = [cancelled |-> 1, blocked |-> 0]

-----------------------------------------------------------------------------
(* Properties of the joiner: the send loop *)

\* the step is one turn of the loop of send_state_request
SendAttempt == j_pc = "send" /\ j_send'.tries = j_send.tries + 1

\* the two results that ask for another attempt
Retryable(ret) == ret \in {0 - EAGAIN, 0 - ENOTCONN}

\* C34: send_state_request issues the request again for as long as the result
\* of the attempt is -EAGAIN or -ENOTCONN, however many attempts were made,
\* and stops at the first attempt whose result is anything else; a result
\* that is not negative is what it returns, the donor index
C34_RetryWhileRetryable ==
    [][SendAttempt =>
          /\ (j_pc' = "send") <=> Retryable(j_send'.ret)
          /\ (j_pc' # "send") => j_pc' \in {"send_end", "aborted"}
          /\ (j_send'.ret >= 0) => j_pc' = "send_end"]_vars

C34_Witness ==
    /\ j_pc = "after_send" /\ j_send.tries = MaxTries /\ j_send.ret = 0
    /\ j_slots.blocked = 0

-----------------------------------------------------------------------------
(* Properties of the joiner: a request that failed for good *)

\* send_state_request ended its loop with an error that is neither one to
\* try again on nor -ENODATA, and has dealt with it
SendFailedForGood ==
    /\ j_pc \notin {"prepare", "lock", "mark", "send", "send_end"}
    /\ j_send.ret < 0 /\ ~Retryable(j_send.ret) /\ j_send.ret # 0 - ENODATA

\* state_() > S_CLOSING, written out
AboveClosing == j_state \in {"S_CONNECTED", "S_JOINING"}

\* C35: when the request fails with an error that is not retried and is not
\* -ENODATA, a coordinator that is still live aborts with the marker store
\* unsafe; on a closing or closed connection there is no abort, the marker is
\* safe again, the error is returned, the coordinator never shifts to JOINING
\* and the joiner never waits for SST or runs IST
C35_FatalUnlessClosing ==
    SendFailedForGood =>
        /\ AboveClosing <=> j_pc = "aborted"
        /\ j_pc = "aborted" => ~j_st.safe
        /\ j_pc # "aborted" =>
              /\ j_pc \in {"after_send", "done"}
              /\ j_st.safe
              /\ j_pc = "done" => j_ret = j_send.ret
              /\ j_state # "S_JOINING" /\ j_gcache = << >>
              /\ ~j_signalled
              /\ j_ir.phase \in {"none", "prepared", "finished"}
              /\ j_ir.cur = j_ir.first
              /\ j_last_st_type = "ST_TYPE_NONE"

C35_Witness ==
    /\ SendFailedForGood /\ j_pc = "done" /\ j_ret = 0 - EPERM
    /\ Unsafe(j_in.sst) /\ j_st.safe /\ j_state = "S_CLOSING"

\* the other half: the abort of a live coordinator
FatalSendAbort ==
    /\ SendFailedForGood /\ j_pc = "aborted" /\ j_send.ret = 0 - EPERM
    /\ ~Unsafe(j_in.sst) /\ ~j_st.safe /\ j_state = "S_CONNECTED"

-----------------------------------------------------------------------------
(* Properties of the joiner: a snapshot of another history *)

\* the joiner has taken the result of an SST that was not cancelled and that
\* carries a uuid other than the group's
WrongStateReceived ==
    /\ ResultRead
    /\ cb_args.rcode # 0 - ECANCELED
    /\ cb_args.uuid # j_in.group_uuid

\* C36: if the SST result is not a cancellation and its uuid differs from the
\* group uuid the process aborts: the position received is never installed in
\* the apply or commit monitor, IST is never started and
\* request_state_transfer never returns
C36_WrongStateAborts ==
    WrongStateReceived =>
        /\ j_pc = "aborted"
        /\ j_apply = j_in.local_seqno /\ j_commit = j_in.local_seqno
        /\ j_state_uuid = j_in.state_uuid
        /\ j_ir.phase \in {"none", "prepared"} /\ j_ir.cur = j_ir.first
        /\ j_last_st_type = "ST_TYPE_NONE"

C36_Witness ==
    /\ WrongStateReceived /\ j_pc = "aborted"
    /\ cb_args.rcode = 0 /\ cb_args.seqno # j_in.local_seqno
    /\ j_sst_seqno = cb_args.seqno /\ j_apply = j_in.local_seqno
    /\ j_ir.phase = "prepared"

-----------------------------------------------------------------------------
(* Properties of the joiner: the marker during IST *)

\* the receiver was made ready: IST write-sets may be received and applied
IstUnderWay ==
    \/ j_pc \in {"recv", "ist_end", "drain", "final"} /\ j_ir.phase # "none"
    \/ j_ir.cur > j_ir.first
    \/ j_fail \in {"apply", "checksum"}

\* C37: no IST write-set is applied on the joiner while the persisted marker
\* holds a defined seqno: the persisted seqno is undefined (-1) from before
\* the first IST write-set is applied until request_state_transfer returns or
\* the process aborts
C37_MarkerUndefinedDuringIst ==
    IstUnderWay => j_st.seqno = WSREP_SEQNO_UNDEFINED

C37_Witness ==
    /\ j_pc = "recv" /\ j_ir.cur = j_ir.first + 1 /\ j_apply = j_ir.first
    /\ ~j_first /\ j_st.seqno = WSREP_SEQNO_UNDEFINED
    /\ j_in.local_seqno >= 0

-----------------------------------------------------------------------------
\* gcs/src/gcs_gcomm.cpp: the gcomm backend of gcs.  One GCommConn is driven
\* by its owner (gcomm_open, gcomm_close), by a sending and a receiving
\* thread (gcomm_send, gcomm_recv) and by the thread connect() creates, which
\* executes run() and from it handle_up().
\*
\* The owner opens a connection once: gcs creates a new backend for every
\* open.  A forced Transport::close does not throw, an unforced one may.  A
\* transport error reaches handle_up with an empty datagram, as in the two
\* calls this file makes (lines 516 and 827).

ECONNABORTED == 103
ETIMEDOUT == 110

MaxPush == 2
MaxSends == 1

\* gcs_comp_msg_size(cm) of a component message of memb_num members, and the
\* payload lengths of user messages, in units that keep their order
gcs_comp_msg_size(memb_num) == 2 + memb_num
PayloadLens == {1, 3}
BufLens == {1, 4}
ViewSizes == {0, 2}
Sources == {0, 2}
UpErrs == {ETIMEDOUT}
DownRets == {0, EAGAIN}
SendLens == {3}

\* what the transport hands to handle_up: a view, a user message of a
\* source, an error
UpView(n) == [kind |-> "view", len |-> 0, idx |-> 0, memb |-> n, err |-> 0]
UpUser(l, s) == [kind |-> "user", len |-> l, idx |-> s, memb |-> 0, err |-> 0]
UpError(e) == [kind |-> "error", len |-> 0, idx |-> 0, memb |-> 0, err |-> e]
UpMetas == { UpView(n) : n \in ViewSizes } \cup
           { UpUser(l, s) : l \in PayloadLens, s \in Sources }

\* RecvBuf::push_back, and the entry handle_up builds from what it was given
push_back(queue, d) == Append(queue, d)
RecvBufData(id, um) ==
    [id |-> id, kind |-> um.kind, len |-> um.len, idx |-> um.idx,
     memb |-> um.memb, err |-> um.err]

\* the member list of current_view_ holds the source of a user message
InView(um, view) == um.idx < view

GcommInit ==
    /\ g_pc = "created" /\ g_sp \in BOOLEAN /\ g_tp = FALSE /\ g_error = 0
    /\ g_terminated = FALSE /\ g_thd = "none" /\ g_connected = FALSE
    /\ g_bar = [conn |-> 0, thd |-> 0] /\ g_view = 0
    /\ g_queue = << >> /\ g_npush = 0 /\ g_uperrs = 0
    /\ g_r = [pc |-> "idle", d |-> NoEntry, buf_len |-> 0]
    /\ g_msg = NoMsg /\ g_deliv = << >> /\ g_send = NoSendYet
    /\ CodecIdle /\ IstIdle /\ DonorIdle /\ JoinerIdle /\ SeqnoIdle

OthersOfGcomm == <<cvars, ivars, dvars, jvars, evars>>

\* GCommConn::connect up to gu_thread_create
connect_create ==
    /\ g_pc = "created" /\ ~g_tp
    /\ g_error' = ENOTCONN
    /\ \E created \in BOOLEAN :
          IF created
          THEN g_thd' = "start" /\ g_pc' = "connecting"
          ELSE g_thd' = g_thd /\ g_pc' = "failed"
    /\ UNCHANGED <<OthersOfGcomm, g_sp, g_tp, g_terminated, g_connected, g_bar,
                   g_view, g_queue, g_npush, g_uperrs, g_r, g_msg, g_deliv, g_send>>

ConnectOutcomes == {"ok", "throw_no_tp", "throw_tp"}

\* the rest of connect with the thread created: it reaches its end or throws,
\* before or after tp_ was set, and ~StartBarrier waits on the barrier;
\* the mutant waits at the normal exit only
connect_body_NoWaitOnThrow ==
    /\ g_pc = "connecting"
    /\ \E out \in ConnectOutcomes :
          /\ g_tp' = (out # "throw_no_tp")
          /\ g_error' = IF out = "ok" THEN 0 ELSE g_error
          /\ g_connected' = (out = "ok")
          /\ g_bar' = IF out = "ok" THEN [g_bar EXCEPT !.conn = @ + 1] ELSE g_bar
          /\ g_pc' = IF out = "ok" THEN "at_barrier" ELSE "failed"
    /\ UNCHANGED <<OthersOfGcomm, g_sp, g_terminated, g_thd, g_view, g_queue,
                   g_npush, g_uperrs, g_r, g_msg, g_deliv, g_send>>

connect_body ==
    /\ g_pc = "connecting"
    /\ \E out \in ConnectOutcomes :
          /\ g_tp' = (out # "throw_no_tp")
          /\ g_error' = IF out = "ok" THEN 0 ELSE g_error
          /\ g_connected' = (out = "ok")
          /\ g_bar' = [g_bar EXCEPT !.conn = @ + 1]
          /\ g_pc' = IF out = "ok" THEN "at_barrier" ELSE "at_barrier_exc"
    /\ UNCHANGED <<OthersOfGcomm, g_sp, g_terminated, g_thd, g_view, g_queue,
                   g_npush, g_uperrs, g_r, g_msg, g_deliv, g_send>>

\* Barrier(2): a wait returns once both parties have arrived
BarrierOpen == g_bar.conn >= 1 /\ g_bar.thd >= 1

\* connect returns, or its exception leaves gcomm_open's catch
connect_exit ==
    /\ g_pc \in {"at_barrier", "at_barrier_exc"}
    /\ BarrierOpen
    /\ g_pc' = IF g_pc = "at_barrier" THEN "open" ELSE "failed"
    /\ UNCHANGED <<OthersOfGcomm, g_sp, g_tp, g_error, g_terminated, g_thd,
                   g_connected, g_bar, g_view, g_queue, g_npush, g_uperrs, g_r, g_msg,
                   g_deliv, g_send>>

\* GCommConn::run up to its wait on the barrier
run_wait ==
    /\ g_thd = "start"
    /\ g_bar' = [g_bar EXCEPT !.thd = @ + 1]
    /\ g_thd' = "barrier"
    /\ UNCHANGED <<OthersOfGcomm, g_pc, g_sp, g_tp, g_error, g_terminated,
                   g_connected, g_view, g_queue, g_npush, g_uperrs, g_r, g_msg, g_deliv,
                   g_send>>

\* the test run() makes of error_ behind the barrier
RunGivesUp_Never(error) == FALSE
RunGivesUp(error) == error # 0

\* run() leaves the barrier and returns or enters its loop
run_start ==
    /\ g_thd = "barrier"
    /\ BarrierOpen
    /\ g_thd' = IF RunGivesUp(g_error) THEN "exited" ELSE "loop"
    /\ UNCHANGED <<OthersOfGcomm, g_pc, g_sp, g_tp, g_error, g_terminated,
                   g_connected, g_bar, g_view, g_queue, g_npush, g_uperrs, g_r, g_msg,
                   g_deliv, g_send>>

\* the loop of run() finds terminated_ set
run_terminated ==
    /\ g_thd = "loop"
    /\ g_terminated
    /\ g_thd' = "exited"
    /\ UNCHANGED <<OthersOfGcomm, g_pc, g_sp, g_tp, g_error, g_terminated,
                   g_connected, g_bar, g_view, g_queue, g_npush, g_uperrs, g_r, g_msg,
                   g_deliv, g_send>>

\* GCommConn::close(true) as handle_up calls it: nothing when the backend is
\* closed already, else terminate() and the transport closed and deleted
\* (pthread_join of the calling thread itself, or of a thread joined before,
\* returns at once)
close_forced ==
    /\ g_tp' = FALSE
    /\ g_terminated' = IF g_tp THEN TRUE ELSE g_terminated

\* GCommConn::handle_up
handle_up(um) ==
    IF um.err # 0
    THEN /\ g_error' = um.err
         /\ close_forced
         /\ g_queue' = push_back(g_queue, RecvBufData(g_npush + 1, um))
         /\ g_npush' = g_npush + 1
         /\ g_view' = g_view
         /\ g_uperrs' = g_uperrs + 1
    ELSE IF um.kind = "view"
    THEN /\ g_view' = um.memb
         /\ g_queue' = push_back(g_queue, RecvBufData(g_npush + 1, um))
         /\ g_npush' = g_npush + 1
         /\ UNCHANGED <<g_error, g_tp, g_terminated, g_uperrs>>
    ELSE /\ IF InView(um, g_view)
            THEN /\ g_queue' = push_back(g_queue, RecvBufData(g_npush + 1, um))
                 /\ g_npush' = g_npush + 1
            ELSE UNCHANGED <<g_queue, g_npush>>
         /\ UNCHANGED <<g_error, g_tp, g_terminated, g_view, g_uperrs>>

\* net_->event_loop delivers a view or a user message
run_deliver ==
    /\ g_thd = "loop"
    /\ g_npush < MaxPush
    /\ \E um \in UpMetas : handle_up(um)
    /\ UNCHANGED <<OthersOfGcomm, g_pc, g_sp, g_thd, g_connected, g_bar, g_r,
                   g_msg, g_deliv, g_send>>

\* net_->event_loop delivers a transport error
run_up_error ==
    /\ g_thd = "loop"
    /\ g_npush < MaxPush
    /\ \E e \in UpErrs : handle_up(UpError(e))
    /\ UNCHANGED <<OthersOfGcomm, g_pc, g_sp, g_thd, g_connected, g_bar, g_r,
                   g_msg, g_deliv, g_send>>

\* net_->event_loop throws: the handler of run() reports it and breaks
run_exception ==
    /\ g_thd = "loop"
    /\ g_npush < MaxPush
    /\ \E e \in UpErrs : handle_up(UpError(e))
    /\ g_thd' = "exited"
    /\ UNCHANGED <<OthersOfGcomm, g_pc, g_sp, g_connected, g_bar, g_r, g_msg,
                   g_deliv, g_send>>

\* gcomm_close up to pthread_join: the backend is closed already, or the
\* thread is told to terminate
gcomm_close_begin ==
    /\ g_pc \in {"open", "failed"}
    /\ IF g_tp
       THEN g_terminated' = TRUE /\ g_pc' = "closing"
       ELSE g_terminated' = g_terminated /\ g_pc' = "closed"
    /\ UNCHANGED <<OthersOfGcomm, g_sp, g_tp, g_error, g_thd, g_connected, g_bar,
                   g_view, g_queue, g_npush, g_uperrs, g_r, g_msg, g_deliv, g_send>>

\* gcomm_close behind pthread_join: the backend was closed meanwhile, or it is
\* closed now, or closing it throws and the handler of gcomm_close reports
\* that to handle_up
gcomm_close_join ==
    /\ g_pc = "closing"
    /\ g_thd = "exited"
    /\ g_pc' = "closed"
    /\ IF ~g_tp
       THEN UNCHANGED <<g_tp, g_error, g_terminated, g_view, g_queue, g_npush, g_uperrs>>
       ELSE \E threw \in IF g_error = 0 /\ g_npush < MaxPush
                         THEN BOOLEAN ELSE {FALSE} :
               IF threw
               THEN \E e \in UpErrs : handle_up(UpError(e))
               ELSE /\ g_tp' = FALSE
                    /\ UNCHANGED <<g_error, g_terminated, g_view, g_queue, g_npush, g_uperrs>>
    /\ UNCHANGED <<OthersOfGcomm, g_sp, g_thd, g_connected, g_bar, g_r, g_msg,
                   g_deliv, g_send>>

\* gcomm_send: the test of conn.get_error() in its critical section
SendRefused_Never(error) == FALSE
SendRefused(error) == error # 0

\* gcomm_send: err behind the critical section and behind the handler that
\* restores the caller's scheduling parameters, and the value returned
SendErr(error, down_ret, restore_threw) ==
    IF restore_threw THEN EPERM
    ELSE IF SendRefused(error) THEN ECONNABORTED ELSE down_ret
SendRet(err, len) == IF err = 0 THEN len ELSE -err

\* gcomm_send.  Setting and restoring the scheduling parameters is attempted
\* only when schedparam_ is not the system default.
gcomm_send ==
    /\ g_pc \in {"open", "failed", "closing", "closed"}
    /\ g_send.calls < MaxSends
    /\ \E len \in SendLens, down_ret \in DownRets,
          restore_threw \in IF g_sp THEN BOOLEAN ELSE {FALSE} :
          g_send' = [calls |-> g_send.calls + 1,
                     restore_threw |-> restore_threw,
                     downs |-> IF SendRefused(g_error) THEN g_send.downs
                               ELSE g_send.downs + 1,
                     len |-> len,
                     ret |-> SendRet(SendErr(g_error, down_ret, restore_threw), len)]
    /\ UNCHANGED <<OthersOfGcomm, g_pc, g_sp, g_tp, g_error, g_terminated, g_thd,
                   g_connected, g_bar, g_view, g_queue, g_npush, g_uperrs, g_r, g_msg,
                   g_deliv>>

\* gcomm_recv: RecvBuf::front.  With an empty queue the wait times out and
\* gcomm_recv returns -ETIMEDOUT (with GU_TIME_ETERNITY it goes on waiting);
\* else the caller holds a reference to the head.
recv_front ==
    /\ g_r.pc = "idle"
    /\ g_pc # "created"
    /\ IF g_queue = << >>
       THEN /\ g_msg' = [g_msg EXCEPT !.ret = -ETIMEDOUT]
            /\ g_r' = g_r
       ELSE /\ \E b \in BufLens :
                  g_r' = [pc |-> "have", d |-> Head(g_queue), buf_len |-> b]
            /\ g_msg' = g_msg
    /\ UNCHANGED <<OthersOfGcomm, g_pc, g_sp, g_tp, g_error, g_terminated, g_thd,
                   g_connected, g_bar, g_view, g_queue, g_npush, g_uperrs, g_deliv,
                   g_send>>

\* the size gcomm_recv needs for an entry: the payload of a user message, a
\* leave message for an error, a component message of the view's members
RequiredSize(d) ==
    IF d.len # 0 THEN d.len
    ELSE IF d.err # 0 THEN gcs_comp_msg_size(0)
    ELSE gcs_comp_msg_size(d.memb)

Fits(d, buf_len) == RequiredSize(d) <= buf_len

\* msg as gcomm_recv leaves it for the entry d.  The branch of an error sets
\* msg->size only when the leave message fits.
RecvMsg(d, buf_len, msg) ==
    LET size == IF d.len = 0 /\ d.err # 0 /\ ~Fits(d, buf_len)
                THEN msg.size ELSE RequiredSize(d)
    IN  IF Fits(d, buf_len)
        THEN [type |-> IF d.len # 0 THEN "USER" ELSE "COMPONENT",
              size |-> size, id |-> d.id,
              leave |-> (d.len = 0 /\ (d.err # 0 \/ d.memb = 0)),
              ret |-> size]
        ELSE [msg EXCEPT !.type = "ERROR", !.size = size, !.ret = size]

\* gcomm_recv behind front(): the entry is copied and popped, or does not fit
recv_copy ==
    /\ g_r.pc = "have"
    /\ g_msg' = RecvMsg(g_r.d, g_r.buf_len, g_msg)
    /\ IF Fits(g_r.d, g_r.buf_len)
       THEN /\ g_queue' = Tail(g_queue)
            /\ g_deliv' = Append(g_deliv, g_r.d.id)
       ELSE UNCHANGED <<g_queue, g_deliv>>
    /\ g_r' = [pc |-> "idle", d |-> NoEntry, buf_len |-> 0]
    /\ UNCHANGED <<OthersOfGcomm, g_pc, g_sp, g_tp, g_error, g_terminated, g_thd,
                   g_connected, g_bar, g_view, g_npush, g_uperrs, g_send>>

GcommNext ==
    \/ connect_create \/ connect_body \/ connect_exit
    \/ run_wait \/ run_start \/ run_terminated
    \/ run_deliver \/ run_up_error \/ run_exception
    \/ gcomm_close_begin \/ gcomm_close_join
    \/ gcomm_send \/ recv_front \/ recv_copy

SpecGcomm == GcommInit /\ [][GcommNext]_vars


-----------------------------------------------------------------------------
\* C38

\* the step is a call of gcomm_send made after handle_up was given an error
SendAfterUpError == g_send'.calls > g_send.calls /\ g_uperrs > 0

\* the step is gcomm_recv handing over, or failing to hand over, an entry
\* that handle_up pushed for an error
RecvOfUpError == g_r.pc = "have" /\ g_r'.pc = "idle" /\ g_r.d.err # 0

\* handle_up was given an error in this step
UpErrorStep == g_uperrs' > g_uperrs

\* what C38 says of handle_up and gcomm_recv: the error closes the backend,
\* leaves error_ set and an entry for it at the back of the queue, and
\* the receiver whose buffer holds a leave message gets that entry as a
\* component message that reports the node's leave
UpErrorClosesAndLeaves ==
    /\ g_uperrs' > 0 => ~g_tp' /\ g_error' # 0
    /\ UpErrorStep =>
          /\ g_queue' # << >>
          /\ g_queue'[Len(g_queue')].err # 0
          /\ Len(g_queue') = Len(g_queue) + 1
    /\ RecvOfUpError /\ Fits(g_r.d, g_r.buf_len) =>
          /\ g_msg'.type = "COMPONENT" /\ g_msg'.leave
          /\ g_msg'.id = g_r.d.id
          /\ g_deliv' = Append(g_deliv, g_r.d.id)

\* C38 as the specification states it: after handle_up was given a transport
\* error the backend is closed and error_ is not zero, every gcomm_send
\* returns -ECONNABORTED and sends nothing, and gcomm_recv hands the receiver
\* a component message of the node's own leave.
C38_Original ==
    [][ /\ UpErrorClosesAndLeaves
        /\ SendAfterUpError =>
              /\ g_send'.ret = -ECONNABORTED
              /\ g_send'.downs = g_send.downs ]_vars

\* C38: after handle_up was given a transport error the backend is closed and
\* error_ is not zero, every gcomm_send sends nothing and returns
\* -ECONNABORTED, or the negated errno of a failure to restore the caller's
\* scheduling parameters when the connection runs with parameters of its own,
\* and gcomm_recv hands the receiver a component message of the node's own
\* leave.
C38_AbortedAfterUpError ==
    [][ /\ UpErrorClosesAndLeaves
        /\ SendAfterUpError =>
              /\ g_send'.downs = g_send.downs
              /\ g_send'.ret < 0
              /\ g_send'.ret # -ECONNABORTED => g_sp /\ g_send'.restore_threw ]_vars

\* a send was refused after a transport error, and the receiver has been
\* handed the leave message of that error
C38_Witness ==
    /\ g_uperrs > 0 /\ g_send.calls > 0 /\ g_send.downs = 0
    /\ g_send.ret = -ECONNABORTED
    /\ g_msg.type = "COMPONENT" /\ g_msg.leave /\ g_queue = << >>
    /\ g_thd = "exited"

\* a send after a transport error returned the errno of the scheduling
\* parameters
SendAfterUpErrorNotAborted ==
    g_uperrs > 0 /\ g_send.calls > 0 /\ g_send.downs = 0 /\ g_send.ret = -EPERM


-----------------------------------------------------------------------------
\* C39

\* the step is gcomm_recv finishing with the entry it took from front()
RecvStep == g_r.pc = "have" /\ g_r'.pc = "idle"

\* the receive queue lost an entry in this step
EntryRemoved == Len(g_queue') < Len(g_queue)

\* an entry leaves the queue only in a gcomm_recv that copied it to the caller
RemovedOnlyWhenCopied ==
    EntryRemoved =>
        /\ RecvStep
        /\ g_queue' = Tail(g_queue)
        /\ g_msg'.type # "ERROR"
        /\ g_msg'.id = Head(g_queue).id
        /\ g_msg'.size <= g_r.buf_len

\* an entry that does not fit stays at the head and is reported as
\* GCS_MSG_ERROR
TooBigStaysAtHead ==
    RecvStep /\ ~Fits(g_r.d, g_r.buf_len) =>
        /\ g_msg'.type = "ERROR"
        /\ g_queue' = g_queue
        /\ Head(g_queue') = g_r.d

\* an entry that does not fit is reported with the size it needs
TooBigReportsSize ==
    RecvStep /\ ~Fits(g_r.d, g_r.buf_len) =>
        g_msg'.size = RequiredSize(g_r.d) /\ g_msg'.ret = RequiredSize(g_r.d)

\* the entries copied to the caller are the first entries pushed, in the order
\* of the pushes and once each; what is left in the queue follows them
DeliveredInPushOrder ==
    /\ \A i \in 1..Len(g_deliv) : g_deliv[i] = i
    /\ \A i \in 1..Len(g_queue) : g_queue[i].id = Len(g_deliv) + i
    /\ Len(g_deliv) + Len(g_queue) = g_npush

\* C39: gcomm_recv removes an entry only when it copied it to the caller's
\* buffer; an entry that does not fit is reported as GCS_MSG_ERROR with the
\* size it needs and stays at the head, so that a later gcomm_recv with room
\* returns it; the entries handle_up pushed are delivered in the order of the
\* pushes, once each, however producer and consumer interleave.
C39_RecvKeepsQueue ==
    [][ /\ RemovedOnlyWhenCopied
        /\ TooBigStaysAtHead
        /\ TooBigReportsSize
        /\ DeliveredInPushOrder' ]_vars

\* C39 without the size of an entry that does not fit
RecvKeepsQueueButSize ==
    [][ /\ RemovedOnlyWhenCopied
        /\ TooBigStaysAtHead
        /\ (RecvStep /\ ~Fits(g_r.d, g_r.buf_len) /\ g_r.d.err = 0 =>
               g_msg'.size = RequiredSize(g_r.d) /\ g_msg'.ret = RequiredSize(g_r.d))
        /\ DeliveredInPushOrder' ]_vars

\* the entry of an error did not fit and gcomm_recv returned a size that is
\* not the size of the leave message
LeaveTooBigStaleSize ==
    /\ g_msg.type = "ERROR"
    /\ g_r.pc = "idle"
    /\ g_queue # << >> /\ Head(g_queue).err # 0
    /\ g_msg.ret # gcs_comp_msg_size(0)

\* an entry was pushed while gcomm_recv held the head, after a gcomm_recv
\* that found the head too big
PushedWhileHeld ==
    /\ g_r.pc = "have" /\ Len(g_queue) >= 2 /\ g_r.d = Head(g_queue)
    /\ g_msg.type = "ERROR"


-----------------------------------------------------------------------------
\* C40

\* connect() is over, by return or by exception, with the thread created
ConnectLeft ==
    g_pc \in {"open", "failed", "closing", "closed"} /\ g_thd # "none"

\* the thread of run() has passed its wait on the barrier
PastBarrier == g_thd \in {"loop", "exited"}

\* the step takes the thread of run() past the barrier and the test of error_
LeavesBarrier == g_thd = "barrier" /\ g_thd' # "barrier"

\* a connect that has created the thread waits on the barrier once, so the
\* thread is never held by the barrier after connect is over, and the
\* thread goes on to the event loop exactly when connect reached its end
BarrierMetOnce ==
    /\ ConnectLeft' => g_bar'.conn = 1 /\ (g_thd' = "barrier" => BarrierOpen')
    /\ g_bar'.conn <= 1 /\ g_bar'.thd <= 1
    /\ LeavesBarrier =>
          /\ g_bar.conn = 1
          /\ (g_thd' = "loop") = (g_connected /\ g_error = 0)
          /\ (g_thd' = "exited") = ~g_connected
    /\ g_thd' = "loop" => g_connected'

\* the scheduler runs the thread of run(), and the body of connect comes to
\* an end
SpecGcommLive ==
    /\ SpecGcomm
    /\ WF_vars(connect_body) /\ WF_vars(run_wait) /\ WF_vars(run_start)

\* C40: once connect has created the thread, every way out of connect waits
\* on the start barrier exactly once, so the wait of run() on the barrier
\* always completes; the thread enters the event loop only if connect
\* reached its end (error_ == 0) and returns at once otherwise.
C40_BarrierAlwaysMet ==
    /\ [][BarrierMetOnce]_vars
    /\ (g_thd = "start") ~> PastBarrier

\* connect threw with the thread created, waited on the barrier once, and
\* the thread returned without entering the loop
C40_Witness ==
    /\ g_pc = "failed" /\ ~g_connected /\ g_error = ENOTCONN
    /\ g_bar = [conn |-> 1, thd |-> 1]
    /\ g_thd = "exited" /\ g_npush = 0

\* connect returned and the thread is in the event loop
ConnectedInLoop == g_pc = "open" /\ g_connected /\ g_thd = "loop" /\ g_error = 0

=============================================================================
